---------------------------- MODULE Spec2Model ----------------------------
(***************************************************************************)
(* A model of maddiesch/machine: the tokenizer, the parser, the source     *)
(* generator, the function registry (Implementation), the evaluator        *)
(* (NodeIL.call) and the single-worker Machine.                            *)
(*                                                                         *)
(* Strings of the program are sequences of runes, each rune a one-letter   *)
(* TLA+ string, so that the tokenizer, TrimSpace, HasPrefix and the source *)
(* generator work on them rune by rune as the code does.                   *)
(***************************************************************************)
EXTENDS Integers, Sequences, FiniteSets, TLC

(***************************************************************************)
(* Runes and strings                                                       *)
(***************************************************************************)
NL == "\n"
TAB == "\t"
SP == " "
\* utf8.RuneError, what DecodeLastRune yields for a malformed byte sequence
RuneError == "?"

\* the runes of a string
Runes(s) == [i \in 1..Len(s) |-> SubSeq(s, i, i)]

\* unicode.IsSpace restricted to the runes a VALUE buffer can hold here
IsSpace(r) == r \in {TAB, SP, NL}

RECURSIVE TrimLeft(_)
TrimLeft(s) ==
  IF s = <<>> THEN <<>>
  ELSE IF IsSpace(Head(s)) THEN TrimLeft(Tail(s)) ELSE s

RECURSIVE TrimRight(_)
TrimRight(s) ==
  IF s = <<>> THEN <<>>
  ELSE IF IsSpace(s[Len(s)]) THEN TrimRight(SubSeq(s, 1, Len(s) - 1)) ELSE s

\* strings.TrimSpace
TrimSpace(s) == TrimRight(TrimLeft(s))

(***************************************************************************)
(* Tokenizer (tokenizer.go)                                                *)
(***************************************************************************)
\* bufio.ScanLines: the lines of the source, without their newline; a
\* trailing newline opens no further line
RECURSIVE SplitLines(_)
SplitLines(src) ==
  IF src = <<>> THEN <<>>
  ELSE IF \E i \in 1..Len(src) : src[i] = NL
  THEN LET i == CHOOSE i \in 1..Len(src) :
                  src[i] = NL /\ \A j \in 1..(i - 1) : src[j] # NL
       IN <<SubSeq(src, 1, i - 1)>> \o SplitLines(SubSeq(src, i + 1, Len(src)))
  ELSE <<src>>

Token(k, v, l, c) == [Kind |-> k, Value |-> v, Line |-> l, Column |-> c]

\* the kind emitted for a rune, "NONE" when the rune emits none
RuneKind(r, col) ==
  CASE r = ";" -> IF col # 1 THEN "END" ELSE "NONE"
    [] r = "(" -> "OPEN"
    [] r = ")" -> "CLOSE"
    [] r = "|" -> "PIPE"
    [] r = "." -> "DOT"
    [] r = "=" -> "ASSIGN"
    [] r = "$" -> "VAR"
    [] OTHER -> "NONE"

Completing(r) == r \in {"(", ")", SP, "|", ".", "=", "$"}
Breaking(r) == r = ";"

NoVal == [store |-> FALSE]
IsVal(v) == v.store

\* appendValue
appendValue(toks, v) ==
  Append(toks, Token("VALUE", TrimSpace(v.buf), v.startL, v.startC))

\* appendToken
appendToken(toks, k, line, col) == Append(toks, Token(k, <<>>, line, col))

\* the rune loop of one line: the tokens after the line, or a SourceError
RECURSIVE ScanRunes(_, _, _, _, _)
ScanRunes(runes, line, col0, val, toks) ==
  IF runes = <<>>
  THEN [err |-> FALSE, toks |-> IF IsVal(val) THEN appendValue(toks, val) ELSE toks]
  ELSE
    LET r == Head(runes)
        col == col0 + 1
    IN IF r = RuneError
       THEN [err |-> TRUE, Line |-> line, Column |-> col, msg |-> "utf8"]
       ELSE
         LET plain == ~Completing(r) /\ ~Breaking(r)
             val1 == IF plain
                     THEN IF IsVal(val)
                          THEN [val EXCEPT !.buf = Append(@, r)]
                          ELSE [store |-> TRUE, buf |-> <<r>>, startL |-> line, startC |-> col]
                     ELSE val
             flush == IsVal(val1) /\ ~plain
             toks1 == IF flush THEN appendValue(toks, val1) ELSE toks
             val2 == IF flush THEN NoVal ELSE val1
             kind == RuneKind(r, col)
             toks2 == IF kind # "NONE" THEN appendToken(toks1, kind, line, col) ELSE toks1
         IN IF Breaking(r)
            THEN [err |-> FALSE, toks |-> IF IsVal(val2) THEN appendValue(toks2, val2) ELSE toks2]
            ELSE ScanRunes(Tail(runes), line, col, val2, toks2)

\* a line that begins is never refused
NeverMissingEnd(toks) == FALSE

\* the check made when a line begins: tokens were emitted and the last of
\* them is not END
MissingEnd(toks) == Len(toks) > 0 /\ toks[Len(toks)].Kind # "END"

\* the line loop
RECURSIVE ScanLines(_, _, _)
ScanLines(lines, line0, toks) ==
  IF lines = <<>> THEN [err |-> FALSE, toks |-> toks]
  ELSE
    LET line == line0 + 1
        last == toks[Len(toks)]
    IN IF MissingEnd(toks)
       THEN [err |-> TRUE, Line |-> last.Line, Column |-> last.Column, msg |-> "semicolon"]
       ELSE LET r == ScanRunes(Head(lines), line, 0, NoVal, toks)
            IN IF r.err THEN r ELSE ScanLines(Tail(lines), line, r.toks)

tokenize(src) == ScanLines(SplitLines(src), 0, <<>>)

(***************************************************************************)
(* AST nodes (machine.proto, node.go)                                      *)
(***************************************************************************)
NoNode == [Kind |-> "NONE"]
NoValue == [Kind |-> "NIL"]

\* newNode: the id is a fresh ksuid, modelled by a counter
newNode(k, id) ==
  [Id |-> id, Kind |-> k, SubType |-> <<>>, Value |-> NoValue,
   Children |-> <<>>, Chained |-> NoNode]

\* setValue
StrV(s) == [Kind |-> "STR", v |-> s]
FltV(f) == [Kind |-> "FLT", v |-> f]
BoolV(b) == [Kind |-> "BOOL", v |-> b]

\* NodeIL_DValue.Str: the Str field, empty unless the value is a STR
StrOf(node) == IF node.Value.Kind = "STR" THEN node.Value.v ELSE <<>>

addChild(n, c) == [n EXCEPT !.Children = Append(@, c)]

(***************************************************************************)
(* strconv.ParseFloat on "<int>.<frac>", for runes without sign, exponent  *)
(* or base prefix: valid when both parts hold only digits and one of them  *)
(* holds a digit.  The value is the pair of the digits, leading zeros of   *)
(* the integer part and trailing zeros of the fraction dropped.            *)
(***************************************************************************)
Digits == {"0", "1", "2", "3", "4", "5", "6", "7", "8", "9"}
AllDigits(s) == \A i \in 1..Len(s) : s[i] \in Digits

RECURSIVE DropLeadingZeros(_)
DropLeadingZeros(s) ==
  IF s # <<>> /\ Head(s) = "0" THEN DropLeadingZeros(Tail(s)) ELSE s

RECURSIVE DropTrailingZeros(_)
DropTrailingZeros(s) ==
  IF s # <<>> /\ s[Len(s)] = "0" THEN DropTrailingZeros(SubSeq(s, 1, Len(s) - 1)) ELSE s

ParseFloatOk(int, frac) == AllDigits(int) /\ AllDigits(frac) /\ Len(int) + Len(frac) > 0
ParseFloat(int, frac) == <<DropLeadingZeros(int), DropTrailingZeros(frac)>>

(***************************************************************************)
(* Parser (node.go).  The parser state P holds the token array the slices  *)
(* before/after share (arr), the FuncCalls census (fc), the next node id   *)
(* (nid) and the failure, if any (err).  A parseTokenInput is the node,    *)
(* the length L of the slice before (always a prefix of arr) and the       *)
(* position p of the token; after is arr[p+1..].                           *)
(***************************************************************************)
nameDelete == Runes("_delete")
nativeFunctionNames == {nameDelete}
kwConst == Runes("const")
kwTrue == Runes("true")
kwFalse == Runes("false")

Fail(P, msg) == [P EXCEPT !.err = msg]
Failed(P) == P.err # "ok"

Res(P, node, c, d) == [P |-> P, node |-> node, c |-> c, d |-> d]

\* FuncCalls[name]++
IncFuncCalls(fc, name) ==
  IF name \in DOMAIN fc THEN [fc EXCEPT ![name] = @ + 1] ELSE fc @@ (name :> 1)

\* append(in.before, in.after[:i]...): before has spare capacity (it is a
\* prefix of the array), so the append copies after[:i] over the array
\* in place, right behind before
AppendBefore(arr, L, p, i) ==
  [k \in 1..Len(arr) |-> IF k > L /\ k <= L + i THEN arr[p + (k - L)] ELSE arr[k]]

hasNext(P, p) == p < Len(P.arr)
nextTok(P, p) == P.arr[p + 1]
hasPrev(L) == L > 0
prevTok(P, L) == P.arr[L]

nextIsProbablyFunc(P, p) ==
  /\ Len(P.arr) - p >= 2
  /\ P.arr[p + 1].Kind = "VALUE"
  /\ P.arr[p + 2].Kind = "OPEN"

nextIsProbablyGroup(P, p) ==
  /\ Len(P.arr) - p >= 3
  /\ P.arr[p + 1].Kind = "OPEN"
  /\ P.arr[p + 2].Kind = "VALUE"
  /\ P.arr[p + 3].Kind = "OPEN"

parseValueToken(P, node, L, p) ==
  IF node.Kind \notin {"FUNC", "NAT"} THEN Res(P, node, 1, FALSE)
  ELSE IF hasNext(P, p) /\ nextTok(P, p).Kind = "OPEN" THEN Res(P, node, 1, FALSE)
  ELSE
    LET lex == P.arr[p].Value
        val == IF lex = kwTrue THEN BoolV(TRUE)
               ELSE IF lex = kwFalse THEN BoolV(FALSE)
               ELSE StrV(lex)
        new == [newNode("VALUE", P.nid) EXCEPT !.Value = val]
    IN Res([P EXCEPT !.nid = @ + 1], addChild(node, new), 1, FALSE)

parseCloseToken(P, node, L, p) ==
  IF node.Kind \in {"GROUP", "FUNC", "NAT"} THEN Res(P, node, 1, TRUE)
  ELSE Res(Fail(P, "Unexpected close"), node, 0, FALSE)

parsePipeToken(P, node, L, p) ==
  IF node.Kind # "GROUP" THEN Res(Fail(P, "Unexpected Pipe outside group"), node, 0, FALSE)
  ELSE IF ~nextIsProbablyFunc(P, p) THEN Res(Fail(P, "Unexpected Pipe not func"), node, 0, FALSE)
  ELSE Res(P, node, 1, FALSE)

parseVarToken(P, node, L, p) ==
  IF ~hasNext(P, p) THEN Res(Fail(P, "Unexpected variable EOF"), node, 0, FALSE)
  ELSE IF nextTok(P, p).Kind # "VALUE" THEN Res(Fail(P, "Unexpected variable fetch"), node, 0, FALSE)
  ELSE IF node.Kind # "FUNC" THEN Res(Fail(P, "variable outside a function call"), node, 0, FALSE)
  ELSE LET new == [newNode("VAR", P.nid) EXCEPT !.Value = StrV(nextTok(P, p).Value)]
       IN Res([P EXCEPT !.nid = @ + 1], addChild(node, new), 2, FALSE)

RECURSIVE parseToken(_, _, _, _)
RECURSIVE parseLoop(_, _, _, _, _, _)
RECURSIVE parseOpenToken(_, _, _, _)
RECURSIVE parseDotToken(_, _, _, _)
RECURSIVE parseAssignToken(_, _, _, _)

\* The loop the OPEN, DOT and ASSIGN handlers share:
\*   for i := 0; i < len(in.after); { c, d := parseToken(...); consumed += c;
\*                                     i += c; if d { break } }
\* parsing into node new from the input (L, p); yields new and consumed.
parseLoop(P, new, L, p, i, consumed) ==
  IF Failed(P) \/ i >= Len(P.arr) - p THEN Res(P, new, consumed, FALSE)
  ELSE
    LET P1 == [P EXCEPT !.arr = AppendBefore(P.arr, L, p, i)]
        r == parseToken(P1, new, L + i, p + 1 + i)
    IN IF Failed(r.P) THEN Res(r.P, r.node, consumed, FALSE)
       ELSE IF r.d THEN Res(r.P, r.node, consumed + r.c, TRUE)
       ELSE parseLoop(r.P, r.node, L, p, i + r.c, consumed + r.c)

\* history: the node made for an OPEN token
Opened(tok, new) ==
  [Line |-> tok.Line, Column |-> tok.Column, Kind |-> new.Kind, name |-> StrOf(new)]

parseOpenToken(P, node, L, p) ==
  IF ~hasNext(P, p) THEN Res(Fail(P, "Unexpected Open EOF"), node, 0, FALSE)
  ELSE IF node.Kind \notin {"FUNC", "ROOT", "GROUP"}
  THEN Res(Fail(P, "Unexpected Open context"), node, 0, FALSE)
  ELSE
    LET isGroup == ~hasPrev(L) \/ prevTok(P, L).Kind # "VALUE"
        name == prevTok(P, L).Value
        isNat == name \in nativeFunctionNames
        new == IF isGroup THEN newNode("GROUP", P.nid)
               ELSE [newNode(IF isNat THEN "NAT" ELSE "FUNC", P.nid)
                       EXCEPT !.Value = StrV(name)]
        P1 == [P EXCEPT !.nid = @ + 1,
                        !.fc = IF isGroup \/ isNat THEN @ ELSE IncFuncCalls(@, name),
                        !.opens = Append(@, Opened(P.arr[p], new))]
        r == parseLoop(P1, new, L, p, 0, 1)
    IN Res(r.P, addChild(node, r.node), r.c, FALSE)

parseDotToken(P, node, L, p) ==
  IF Len(node.Children) = 0 THEN Res(Fail(P, "Unexpected chain no children"), node, 0, FALSE)
  ELSE
    LET n == Len(node.Children)
        last == node.Children[n]
    IN CASE last.Kind \in {"GROUP", "FUNC"} ->
              IF ~nextIsProbablyFunc(P, p) /\ ~nextIsProbablyGroup(P, p)
              THEN Res(Fail(P, "Unexpected chain not func or group"), node, 0, FALSE)
              ELSE
                LET r == parseLoop([P EXCEPT !.nid = @ + 1], newNode("ROOT", P.nid), L, p, 0, 1)
                IN IF Failed(r.P) THEN Res(r.P, node, 0, FALSE)
                   ELSE IF Len(r.node.Children) # 1
                   THEN Res(Fail(r.P, "Failed to chain"), node, 0, FALSE)
                   ELSE Res(r.P,
                            [node EXCEPT !.Children[n].Chained = r.node.Children[1]],
                            r.c, TRUE)
         [] last.Kind = "VALUE" ->
              IF ~hasNext(P, p) \/ nextTok(P, p).Kind # "VALUE"
              THEN Res(Fail(P, "Expected a value after ."), node, 0, FALSE)
              ELSE IF StrOf(last) # <<>> /\ Head(StrOf(last)) = "f"
              THEN LET int == Tail(StrOf(last))
                       frac == nextTok(P, p).Value
                   IN IF ~ParseFloatOk(int, frac)
                      THEN Res(Fail(P, "Invalid float value"), node, 0, FALSE)
                      ELSE Res(P,
                               [node EXCEPT !.Children[n].Value = FltV(ParseFloat(int, frac))],
                               2, FALSE)
              ELSE Res(Fail(P, "Unable to determine the value"), node, 0, FALSE)
         [] OTHER -> Res(Fail(P, "Unexpected chain kind"), node, 0, FALSE)

\* an assignment that keeps the container of its right-hand side
WholeRoot(root) == root

\* new.Chained = root.Children[0]
AssignChain(root) == root.Children[1]

parseAssignToken(P, node, L, p) ==
  IF L < 2 THEN Res(Fail(P, "Unexpected assignment before"), node, 0, FALSE)
  ELSE IF ~hasNext(P, p) THEN Res(Fail(P, "Unexpected assignment nothing"), node, 0, FALSE)
  ELSE
    LET kind == P.arr[L - 1]
        name == P.arr[L]
    IN IF kind.Kind # "VALUE" \/ kind.Value # kwConst
       THEN Res(Fail(P, "leading assignment is not a valid type"), node, 0, FALSE)
       ELSE IF name.Kind # "VALUE"
       THEN Res(Fail(P, "leading assignment name is not a valid type"), node, 0, FALSE)
       ELSE
         LET new == [newNode("ASSIGN", P.nid) EXCEPT !.SubType = kind.Value,
                                                     !.Value = StrV(name.Value)]
             r == parseLoop([P EXCEPT !.nid = @ + 2], newNode("ROOT", P.nid + 1), L, p, 0, 1)
         IN IF Failed(r.P) THEN Res(r.P, node, 0, FALSE)
            ELSE IF Len(r.node.Children) # 1
            THEN Res(Fail(r.P, "Failed to chain"), node, 0, FALSE)
            ELSE Res(r.P,
                     addChild(node, [new EXCEPT !.Chained = AssignChain(r.node)]),
                     r.c, TRUE)

parseToken(P, node, L, p) ==
  LET k == P.arr[p].Kind
  IN CASE k = "VALUE" -> parseValueToken(P, node, L, p)
       [] k = "OPEN" -> parseOpenToken(P, node, L, p)
       [] k = "END" -> Res(P, node, 1, TRUE)
       [] k = "CLOSE" -> parseCloseToken(P, node, L, p)
       [] k = "DOT" -> parseDotToken(P, node, L, p)
       [] k = "PIPE" -> parsePipeToken(P, node, L, p)
       [] k = "ASSIGN" -> parseAssignToken(P, node, L, p)
       [] k = "VAR" -> parseVarToken(P, node, L, p)

\* the loop of parser: before = tokens[:i], after = tokens[i+1:], the
\* close flag ignored
RECURSIVE parserLoop(_, _, _)
parserLoop(P, node, i) ==
  IF Failed(P) \/ i >= Len(P.arr) THEN [P |-> P, node |-> node]
  ELSE LET r == parseToken(P, node, i, i + 1)
       IN parserLoop(r.P, r.node, i + r.c)

\* parser: the tokens are copied, the copy is what the slices share
parser(toks, nid) ==
  parserLoop([arr |-> toks, fc |-> <<>>, nid |-> nid + 1, err |-> "ok",
              opens |-> <<>>],
             newNode("ROOT", nid), 0)

(***************************************************************************)
(* Source generator and CompileSource (compiler.go)                        *)
(***************************************************************************)
\* what GenerateSource writes for token i
TokenText(toks, i) ==
  LET t == toks[i]
      spaced == IF i < Len(toks) /\ toks[i + 1].Kind \in {"VALUE", "VAR"}
                THEN <<SP>> ELSE <<>>
  IN CASE t.Kind = "VALUE" -> t.Value \o spaced
       [] t.Kind = "OPEN" -> <<"(">>
       [] t.Kind = "CLOSE" -> <<")">> \o spaced
       [] t.Kind = "END" -> <<";", NL>>
       [] t.Kind = "DOT" -> <<".">>
       [] t.Kind = "PIPE" -> <<"|">>
       [] t.Kind = "ASSIGN" -> <<SP, "=", SP>>
       [] t.Kind = "VAR" -> <<"$">>

RECURSIVE GenerateFrom(_, _)
GenerateFrom(toks, i) ==
  IF i > Len(toks) THEN <<>> ELSE TokenText(toks, i) \o GenerateFrom(toks, i + 1)

GenerateSource(toks) == GenerateFrom(toks, 1)

\* CompileSource: a ProgramIL (ok), or the error of the first failing phase.
\* nid is where the ids of the program's nodes start.
CompileSource(src, nid) ==
  LET t == tokenize(src)
  IN IF t.err THEN [ok |-> FALSE, phase |-> "tokenize", err |-> t]
     ELSE LET r == parser(t.toks, nid)
          IN IF Failed(r.P) THEN [ok |-> FALSE, phase |-> "parser", err |-> r.P.err]
             ELSE [ok |-> TRUE,
                   Source |-> GenerateSource(t.toks),
                   Entry |-> r.node,
                   FuncCalls |-> r.P.fc,
                   Tokens |-> t.toks,
                   nid |-> r.P.nid,
                   opens |-> r.P.opens]

(***************************************************************************)
(* NodeCompare (node.go)                                                   *)
(***************************************************************************)
\* every two values compare as equal
AnyValue(lhs, rhs) == TRUE

nCompareV(lhs, rhs) ==
  IF lhs = NoValue /\ rhs = NoValue THEN TRUE
  ELSE IF lhs = NoValue \/ rhs = NoValue THEN FALSE
  ELSE IF lhs.Kind # rhs.Kind THEN FALSE
  ELSE lhs.v = rhs.v

RECURSIVE nCompare(_, _)
nCompare(lhs, rhs) ==
  IF lhs = NoNode /\ rhs = NoNode THEN FALSE
  ELSE IF lhs = NoNode \/ rhs = NoNode THEN FALSE
  ELSE IF lhs.Kind # rhs.Kind THEN FALSE
  ELSE IF lhs.SubType # rhs.SubType THEN FALSE
  ELSE IF Len(lhs.Children) # Len(rhs.Children) THEN FALSE
  ELSE IF ~nCompareV(lhs.Value, rhs.Value) THEN FALSE
  ELSE IF ~(lhs.Chained = NoNode /\ rhs.Chained = NoNode)
          /\ ~nCompare(lhs.Chained, rhs.Chained) THEN FALSE
  ELSE \A i \in 1..Len(lhs.Children) : nCompare(lhs.Children[i], rhs.Children[i])

NodeCompare(lhs, rhs) == nCompare(lhs, rhs)

(***************************************************************************)
(* The IR of a program (machine.proto, compiler.go): the proto3 wire form  *)
(* of a message is the sequence of the fields it holds, each a field       *)
(* number and a payload.  A scalar field is on the wire only when it is    *)
(* not the zero value of its type, a message field only when it is not     *)
(* nil, a repeated field once per element; reading back, a field that is   *)
(* not on the wire keeps its zero value.                                   *)
(***************************************************************************)
Field(num, val) == [num |-> num, val |-> val]

HasField(w, num) == \E i \in 1..Len(w) : w[i].num = num

\* the payload of a singular field: the last one on the wire
GetField(w, num, zero) ==
  IF HasField(w, num)
  THEN w[CHOOSE i \in 1..Len(w) :
           w[i].num = num /\ \A j \in (i + 1)..Len(w) : w[j].num # num].val
  ELSE zero

\* the payloads of a repeated field, in order
RECURSIVE GetRepeated(_, _)
GetRepeated(w, num) ==
  IF w = <<>> THEN <<>>
  ELSE (IF Head(w).num = num THEN <<Head(w).val>> ELSE <<>>)
       \o GetRepeated(Tail(w), num)

\* the double 0
FltZero == ParseFloat(<<>>, <<>>)

\* message DValue: kind = 1 (STR is 0), str = 2, flt = 3, bool = 4
MarshalDValue(v) ==
  (IF v.Kind # "STR" THEN <<Field(1, v.Kind)>> ELSE <<>>)
  \o (IF v.Kind = "STR" /\ v.v # <<>> THEN <<Field(2, v.v)>> ELSE <<>>)
  \o (IF v.Kind = "FLT" /\ v.v # FltZero THEN <<Field(3, v.v)>> ELSE <<>>)
  \o (IF v.Kind = "BOOL" /\ v.v THEN <<Field(4, v.v)>> ELSE <<>>)

UnmarshalDValue(w) ==
  LET k == GetField(w, 1, "STR")
  IN [Kind |-> k,
      v |-> CASE k = "STR" -> GetField(w, 2, <<>>)
              [] k = "FLT" -> GetField(w, 3, FltZero)
              [] k = "BOOL" -> GetField(w, 4, FALSE)]

RECURSIVE MarshalNode(_)

\* only the last child is written
WireLastChild(n) ==
  IF n.Children = <<>> THEN <<>>
  ELSE <<Field(3, MarshalNode(n.Children[Len(n.Children)]))>>

\* repeated NodeIL children = 3
WireChildren(n) ==
  [i \in 1..Len(n.Children) |-> Field(3, MarshalNode(n.Children[i]))]

\* message NodeIL: id = 1, kind = 2 (NONE is 0), children = 3, chained = 4,
\* value = 5, sub_type = 6
MarshalNode(n) ==
  (IF n.Id # 0 THEN <<Field(1, n.Id)>> ELSE <<>>)
  \o (IF n.Kind # "NONE" THEN <<Field(2, n.Kind)>> ELSE <<>>)
  \o WireChildren(n)
  \o (IF n.Chained # NoNode THEN <<Field(4, MarshalNode(n.Chained))>> ELSE <<>>)
  \o (IF n.Value # NoValue THEN <<Field(5, MarshalDValue(n.Value))>> ELSE <<>>)
  \o (IF n.SubType # <<>> THEN <<Field(6, n.SubType)>> ELSE <<>>)

RECURSIVE UnmarshalNode(_)
UnmarshalNode(w) ==
  LET kids == GetRepeated(w, 3)
  IN [Id |-> GetField(w, 1, 0),
      Kind |-> GetField(w, 2, "NONE"),
      SubType |-> GetField(w, 6, <<>>),
      Value |-> IF HasField(w, 5) THEN UnmarshalDValue(GetField(w, 5, <<>>))
                ELSE NoValue,
      Children |-> [i \in 1..Len(kids) |-> UnmarshalNode(kids[i])],
      Chained |-> IF HasField(w, 4) THEN UnmarshalNode(GetField(w, 4, <<>>))
                  ELSE NoNode]

\* map<string, uint64> func_calls = 4: one entry message (key = 1,
\* value = 2) per key, in no particular order
RECURSIVE WireMap(_)
WireMap(fc) ==
  IF DOMAIN fc = {} THEN <<>>
  ELSE LET k == CHOOSE k \in DOMAIN fc : TRUE
       IN <<Field(4, <<Field(1, k), Field(2, fc[k])>>)>>
          \o WireMap([j \in DOMAIN fc \ {k} |-> fc[j]])

ReadMap(w) ==
  LET es == GetRepeated(w, 4)
      keyOf(e) == GetField(e, 1, <<>>)
  IN [k \in {keyOf(es[i]) : i \in 1..Len(es)} |->
        GetField(es[CHOOSE i \in 1..Len(es) :
                      keyOf(es[i]) = k
                      /\ \A j \in (i + 1)..Len(es) : keyOf(es[j]) # k], 2, 0)]

\* ProgramIL.IR: proto.Marshal of message ProgramIL (source = 2, entry = 3,
\* func_calls = 4; the id of the program is not modelled)
IR(p) ==
  (IF p.Source # <<>> THEN <<Field(2, p.Source)>> ELSE <<>>)
  \o <<Field(3, MarshalNode(p.Entry))>>
  \o WireMap(p.FuncCalls)

\* ProgramIL.LoadIR into &ProgramIL{}: proto.Unmarshal
LoadIR(ir) ==
  [ok |-> TRUE,
   Source |-> GetField(ir, 2, <<>>),
   Entry |-> IF HasField(ir, 3) THEN UnmarshalNode(GetField(ir, 3, <<>>)) ELSE NoNode,
   FuncCalls |-> ReadMap(ir)]

(***************************************************************************)
(* Function registry (implementation.go, the standard library).            *)
(*                                                                         *)
(* A handler is a Go value: isFunc tells whether it is a function, in and  *)
(* out are its parameter and result types ("ctx" is context.Context), and  *)
(* impl names what it does when called.  Implementations and their funcs   *)
(* maps are objects with identity: a registry world W holds the            *)
(* Implementation objects (impls) and the maps (maps); the funcs field of  *)
(* an Implementation is the index of its map, 0 for a nil map.             *)
(***************************************************************************)
Handler(in, out, impl) == [isFunc |-> TRUE, in |-> in, out |-> out, impl |-> impl]
NotAFunc == [isFunc |-> FALSE, in |-> <<>>, out |-> <<>>, impl |-> "none"]

nameSet == Runes("set")
nameSetf == Runes("setf")
nameFatal == Runes("fatal")
nameEnv == Runes("env")
nameRet == Runes("ret")

\* &Implementation{}
ZeroImpl == [funcs |-> 0, frozen |-> FALSE, stdInj |-> FALSE]

NilMap == <<>>
FuncsOf(W, i) == IF W.impls[i].funcs = 0 THEN NilMap ELSE W.maps[W.impls[i].funcs]

isFrozen(W, i) == W.impls[i].frozen
hasStdlib(W, i) == W.impls[i].stdInj

\* i.funcs = make(map[string]*iFunc, 0) when i.funcs is nil
MakeFuncs(W, i) ==
  IF W.impls[i].funcs # 0 THEN W
  ELSE [impls |-> [W.impls EXCEPT ![i].funcs = Len(W.maps) + 1],
        maps |-> Append(W.maps, NilMap)]

\* i.funcs[name] = fn
PutFunc(W, i, name, fn) ==
  LET m == W.impls[i].funcs
      old == W.maps[m]
  IN [W EXCEPT !.maps[m] = [n \in DOMAIN old \cup {name} |-> IF n = name THEN fn ELSE old[n]]]

\* the iFunc addFunc builds from the handler's type
MakeIFunc(std, name, h) ==
  LET recCxt == Len(h.in) > 0 /\ h.in[1] = "ctx"
      retErr == \/ Len(h.out) = 1 /\ h.out[1] = "error"
                \/ Len(h.out) = 2 /\ h.out[2] = "error"
  IN [name |-> name, std |-> std, impl |-> h.impl, in |-> h.in, out |-> h.out,
      recCxt |-> recCxt,
      recC |-> IF recCxt THEN Len(h.in) - 1 ELSE Len(h.in),
      retErr |-> retErr,
      retC |-> IF retErr THEN Len(h.out) - 1 ELSE Len(h.out)]

RegOk(W) == [W |-> W, panic |-> FALSE]
RegPanic(W) == [W |-> W, panic |-> TRUE]

\* addFunc without its check of the name
NeverRedefines(W0, i, name) == FALSE

\* the check of addFunc that the name is not registered yet
Redefines(W, i, name) == name \in DOMAIN FuncsOf(W, i)

addFunc(W, i, std, name, h) ==
  IF isFrozen(W, i) THEN RegPanic(W)
  ELSE IF ~h.isFunc THEN RegPanic(W)
  ELSE IF Len(h.out) = 2 /\ h.out[2] # "error" THEN RegPanic(W)
  ELSE IF Len(h.out) > 2 THEN RegPanic(W)
  ELSE LET W1 == MakeFuncs(W, i)
       IN IF Redefines(W1, i, name) THEN RegPanic(W1)
          ELSE RegOk(PutFunc(W1, i, name, MakeIFunc(std, name, h)))

freeze(W, i) == [W EXCEPT !.impls[i].frozen = TRUE]

\* stdlib(): the process-wide Implementation, built once and frozen.  The
\* registry world once it has run: Implementation 1 is stdlibI
StdWorld ==
  LET W0 == [impls |-> <<ZeroImpl>>, maps |-> <<>>]
      W1 == addFunc(W0, 1, TRUE, nameSet,
                    Handler(<<"string">>, <<"string">>, "set")).W
      W2 == addFunc(W1, 1, TRUE, nameSetf,
                    Handler(<<"float64">>, <<"float64">>, "setf")).W
      W3 == addFunc(W2, 1, TRUE, nameFatal,
                    Handler(<<"string">>, <<"error">>, "fatal")).W
      W4 == addFunc(W3, 1, TRUE, nameEnv,
                    Handler(<<"ctx", "string">>, <<"string">>, "env")).W
      W5 == addFunc(W4, 1, TRUE, nameRet,
                    Handler(<<"ctx">>, <<"iface">>, "ret")).W
  IN freeze(W5, 1)
StdImpl == 1
\* stdlib().funcs, in a world where stdlib() has run
stdlibFuncs(W) == FuncsOf(W, StdImpl)

stdlibHasFunc(W, name) == \E n \in DOMAIN stdlibFuncs(W) : n = name

\* Implementation.Func
Func(W, i, name, h) ==
  IF stdlibHasFunc(W, name) THEN RegPanic(W) ELSE addFunc(W, i, FALSE, name, h)

\* the loop of mergeStdlib: i.funcs[name] = &n for every function of std
PutAll(W, i, std) ==
  LET m == W.impls[i].funcs
      old == W.maps[m]
  IN [W EXCEPT !.maps[m] =
        [n \in DOMAIN old \cup DOMAIN std |-> IF n \in DOMAIN std THEN std[n] ELSE old[n]]]

\* the guard of mergeStdlib
MergeSkips(W, i) == hasStdlib(W, i)

mergeStdlib(W, i) ==
  IF MergeSkips(W, i) THEN W
  ELSE LET W1 == MakeFuncs(W, i)
           W2 == PutAll(W1, i, stdlibFuncs(W))
       IN [W2 EXCEPT !.impls[i].stdInj = TRUE]

\* the map dup would hold if it kept the map of the Implementation it copies
DupFuncsShared(W0, i) == W0.impls[i].funcs

\* the map the Implementation returned by dup holds: a new map
DupFuncsRef(W, i) == Len(W.maps) + 1

\* dup: the new Implementation is the last of the world
dup(W, i) ==
  LET m == DupFuncsRef(W, i)
      maps1 == IF m > Len(W.maps) THEN Append(W.maps, FuncsOf(W, i)) ELSE W.maps
  IN [impls |-> Append(W.impls, [funcs |-> m, frozen |-> TRUE, stdInj |-> W.impls[i].stdInj]),
      maps |-> maps1]

NotFound == [Code |-> "FuncNotFound"]
NoErr == [Code |-> "nil"]
RuntimeError(code) == [Code |-> code]

\* Implementation.lookup
lookup(W, i, name) ==
  IF name \in DOMAIN FuncsOf(W, i)
  THEN [fn |-> FuncsOf(W, i)[name], err |-> NoErr]
  ELSE [fn |-> NotAFunc, err |-> NotFound]

(***************************************************************************)
(* Runtime values (reflect.Value).  STR, FLT and BOOL are as in the AST;   *)
(* ZERO is the zero reflect.Value; LIST is reflect.ValueOf of a slice of   *)
(* values; IFACE is a value of type interface{} and holds what the         *)
(* interface holds: NilIface, or (what ret returns) a boxed reflect.Value. *)
(***************************************************************************)
ZeroValue == [Kind |-> "ZERO"]
NilIface == [Kind |-> "NILIFACE"]
ListV(vs) == [Kind |-> "LIST", v |-> vs]
IfaceV(x) == [Kind |-> "IFACE", v |-> x]

\* NodeIL_DValue.value: panics on a nil value or an unknown kind
ValuePanics(node) == node.Value.Kind \notin {"STR", "FLT", "BOOL"}

\* The context: the value under macCtxRetKey, when there is one
NoRetCtx == [hasRet |-> FALSE]
WithRet(v) == [hasRet |-> TRUE, ret |-> v]

\* LastReturn: ctx.Value(macCtxRetKey)
LastReturn(ctx) == IF ctx.hasRet THEN ctx.ret ELSE NilIface

(***************************************************************************)
(* The evaluator state (machineST) and its frames.  A frame is a function  *)
(* from the reserved pointers to values.  log is the history of the walk:  *)
(* the handlers invoked, the bindings made and removed.                    *)
(***************************************************************************)
maxStackLevel == 2000
ptrStart == 268435456
stackReturnPtr == "0xff034680"
stackNodeDescPtr == "0xff00117f"
stackNodeIDPtr == "0xff001180"

EmptyFrame == <<>>

\* the machineST execute sets up
NewState(env, lk) ==
  [lookup |-> lk, ptr |-> ptrStart, heap |-> <<>>, stack |-> <<>>,
   env |-> env, names |-> <<>>, log |-> <<>>]

push(m) == [m EXCEPT !.stack = <<EmptyFrame>> \o @]
sSet(m, ptr, v) == [m EXCEPT !.stack[1] = (ptr :> v) @@ @]

Out(m, frame, err) == [m |-> m, frame |-> frame, err |-> err]
\* return m.pop(), err
Pop(m, err) == Out([m EXCEPT !.stack = Tail(@)], m.stack[1], err)
\* a Go panic unwinds the walk: nothing is popped
Panic(m) == Out(m, EmptyFrame, RuntimeError("PANIC"))

IsErr(o) == o.err.Code # "nil"
IsPanic(o) == o.err.Code = "PANIC"
HasReturn(frame) == stackReturnPtr \in DOMAIN frame

\* Getenv reading the machine's own map
GetenvLive(m, menv, name) == IF name \in DOMAIN menv THEN menv[name] ELSE <<>>

\* machineST.Getenv: the copy of the environment made when the walk began
\* (a missing key reads as the empty string)
Getenv(m, menv, name) == IF name \in DOMAIN m.env THEN m.env[name] ELSE <<>>

\* m.lookup: Implementation.lookup on the machine's registry
mLookup(m, name) ==
  IF name \in DOMAIN m.lookup
  THEN [fn |-> m.lookup[name], err |-> NoErr]
  ELSE [fn |-> NotAFunc, err |-> NotFound]

Logged(m, e) == [m EXCEPT !.log = Append(@, e)]

(***************************************************************************)
(* iFunc.call.  reflect's Call panics on a zero Value argument and on an   *)
(* argument whose type is not assignable to the parameter's.               *)
(***************************************************************************)
Assignable(type, v) ==
  CASE v.Kind = "STR" -> type \in {"string", "iface"}
    [] v.Kind = "FLT" -> type \in {"float64", "iface"}
    [] v.Kind = "BOOL" -> type \in {"bool", "iface"}
    [] v.Kind \in {"IFACE", "LIST"} -> type = "iface"
    [] OTHER -> FALSE

CallPanics(fn, args) ==
  LET off == IF fn.recCxt THEN 1 ELSE 0
  IN \E k \in 1..Len(args) : ~Assignable(fn.in[k + off], args[k])

\* what the native handler returns: its value (when it has one) and its
\* error (when it has one)
HandlerValue(fn, ctx, args, m, menv) ==
  CASE fn.impl \in {"set", "setf"} -> args[1]
    [] fn.impl = "env" -> StrV(Getenv(m, menv, args[1].v))
    [] fn.impl = "ret" -> IfaceV(LastReturn(ctx))
    [] OTHER -> StrV(fn.name)

HandlerError(fn, args) ==
  CASE fn.impl = "fatal" -> RuntimeError("Fatal")
    [] fn.impl = "fail" -> RuntimeError("HostError")
    [] OTHER -> NoErr

\* a check that lets a call with too few arguments through
ArityAtMost(fn, args) == Len(args) <= fn.recC

\* the arity check of iFunc.call
ArityOk(fn, args) == Len(args) = fn.recC

\* iFunc.call: [m, ret, err]; the invocation of the handler is logged
fnCall(fn, ctx, args, m, menv) ==
  IF ~ArityOk(fn, args)
  THEN [m |-> m, ret |-> ZeroValue, err |-> RuntimeError("ArgumentError")]
  ELSE IF CallPanics(fn, args)
  THEN [m |-> m, ret |-> ZeroValue, err |-> RuntimeError("PANIC")]
  ELSE
    LET ret == IF fn.retC = 0 THEN ZeroValue ELSE HandlerValue(fn, ctx, args, m, menv)
        herr == IF fn.retErr THEN HandlerError(fn, args) ELSE NoErr
        m1 == Logged(m, [ev |-> "invoke", name |-> fn.name, args |-> args,
                         withCtx |-> fn.recCxt, last |-> LastReturn(ctx),
                         ret |-> ret, err |-> herr, depth |-> Len(m.stack),
                         node |-> m.stack[1][stackNodeIDPtr]])
    IN [m |-> m1, ret |-> ret, err |-> herr]

(***************************************************************************)
(* NodeIL.call: the evaluation of one node and of what hangs under it.     *)
(* menv is the machine's own environment map, which the walk is given      *)
(* only so that Getenv can be stated against it.                           *)
(***************************************************************************)
RECURSIVE call(_, _, _, _)
RECURSIVE callRoot(_, _, _, _, _)
RECURSIVE callArgs(_, _, _, _, _, _)
RECURSIVE callGroup(_, _, _, _, _, _)

\* case NodeIL_ROOT: the children from the k-th on
callRoot(n, ctx, m, menv, k) ==
  IF k > Len(n.Children) THEN Pop(m, NoErr)
  ELSE LET o == call(n.Children[k], ctx, m, menv)
       IN IF IsPanic(o) THEN Panic(o.m)
          ELSE IF IsErr(o) THEN Pop(o.m, o.err)
          ELSE callRoot(n, ctx, o.m, menv, k + 1)

\* a delete that empties the table
DeleteAll(names, name) == <<>>

\* delete(m.names, n)
Delete(names, name) == [x \in DOMAIN names \ {name} |-> names[x]]

\* case NodeIL_NAT
callNat(n, ctx, m, menv) ==
  IF n.Value = NoValue THEN Panic(m)
  ELSE IF StrOf(n) # nameDelete
  THEN Pop(m, RuntimeError("UnknownNativeFunction"))
  ELSE IF Len(n.Children) # 1 THEN Pop(m, RuntimeError("NativeFunctionErr"))
  ELSE
    LET o == call(n.Children[1], ctx, m, menv)
    IN IF IsPanic(o) THEN Panic(o.m)
       ELSE IF IsErr(o) THEN Pop(o.m, o.err)
       ELSE IF HasReturn(o.frame) /\ o.frame[stackReturnPtr].Kind = "STR"
       THEN LET name == o.frame[stackReturnPtr].v
                m1 == [o.m EXCEPT !.names = Delete(@, name)]
            IN Pop(Logged(m1, [ev |-> "delete", name |-> name,
                               was |-> name \in DOMAIN o.m.names]), NoErr)
       ELSE Pop(o.m, NoErr)

\* an argument loop that takes no notice of an argument's error
ArgNeverFails(o) == FALSE

\* s, err := c.call(ctx, m); if err != nil { return m.pop(), err }
ArgFails(o) == IsErr(o)

\* the argument loop of case NodeIL_FUNC: [m, args, err, done]
callArgs(n, ctx, m, menv, k, args) ==
  IF k > Len(n.Children) THEN [o |-> Out(m, EmptyFrame, NoErr), args |-> args]
  ELSE LET o == call(n.Children[k], ctx, m, menv)
       IN IF IsPanic(o) THEN [o |-> Panic(o.m), args |-> args]
          ELSE IF ArgFails(o) THEN [o |-> Pop(o.m, o.err), args |-> args]
          ELSE IF ~HasReturn(o.frame)
          THEN [o |-> Pop(o.m, RuntimeError("MissingReturnValue")), args |-> args]
          ELSE callArgs(n, ctx, o.m, menv, k + 1, Append(args, o.frame[stackReturnPtr]))

\* a chain called with the context of the node it hangs from
FuncChainCtxKept(ctx, ret) == ctx

\* context.WithValue(ctx, macCtxRetKey, ret) for the chain of a FUNC
FuncChainCtx(ctx, ret) == WithRet(ret)

\* a chain behind a handler without a return goes unnoticed
NeverChainsFromNothing(n) == FALSE

\* else if n.Chained != nil, reached when fn.retC is 0
ChainsFromNothing(n) == n.Chained # NoNode

\* case NodeIL_FUNC
callFunc(n, ctx, m, menv) ==
  IF n.Value = NoValue THEN Panic(m)
  ELSE
    LET l == mLookup(m, StrOf(n))
    IN IF l.err.Code # "nil" THEN Pop(m, l.err)
       ELSE
         LET a == callArgs(n, ctx, m, menv, 1, <<>>)
         IN IF IsErr(a.o) THEN a.o
            ELSE
              LET c == fnCall(l.fn, ctx, a.args, a.o.m, menv)
              IN IF c.err.Code = "PANIC" THEN Panic(c.m)
                 ELSE IF c.err.Code # "nil" THEN Pop(c.m, c.err)
                 ELSE IF l.fn.retC # 0
                 THEN LET m1 == sSet(c.m, stackReturnPtr, c.ret)
                      IN IF n.Chained = NoNode THEN Pop(m1, NoErr)
                         ELSE LET o == call(n.Chained, FuncChainCtx(ctx, c.ret), m1, menv)
                              IN IF IsPanic(o) THEN Panic(o.m)
                                 ELSE IF IsErr(o) THEN Pop(o.m, o.err)
                                 ELSE IF HasReturn(o.frame)
                                 THEN Pop(sSet(o.m, stackReturnPtr, o.frame[stackReturnPtr]), NoErr)
                                 ELSE Pop(o.m, NoErr)
                 ELSE IF ChainsFromNothing(n) THEN Pop(c.m, RuntimeError("ChainingToFunc"))
                 ELSE Pop(c.m, NoErr)

\* the value case NodeIL_GROUP hands each child as the last return: the
\* loop's "val, ret := st[stackReturnPtr]" declares a val of its own, so the
\* val the context is built from stays the zero Value
GroupLast == ZeroValue

\* a list of grouped returns built newest first
GroupedNewestFirst(grouped, frame) ==
  IF HasReturn(frame) THEN <<frame[stackReturnPtr]>> \o grouped ELSE grouped

\* if ret { grouped = append(grouped, val) }
Grouped(grouped, frame) ==
  IF HasReturn(frame) THEN Append(grouped, frame[stackReturnPtr]) ELSE grouped

\* the child loop and the chain of case NodeIL_GROUP
callGroup(n, ctx, m, menv, k, grouped) ==
  IF k > Len(n.Children)
  THEN IF n.Chained = NoNode THEN Pop(m, NoErr)
       ELSE LET o == call(n.Chained, WithRet(ListV(grouped)), m, menv)
            IN IF IsPanic(o) THEN Panic(o.m)
               ELSE IF IsErr(o) THEN Pop(o.m, o.err)
               ELSE IF HasReturn(o.frame)
               THEN Pop(sSet(o.m, stackReturnPtr, o.frame[stackReturnPtr]), NoErr)
               ELSE Pop(o.m, NoErr)
  ELSE LET o == call(n.Children[k], WithRet(GroupLast), m, menv)
       IN IF IsPanic(o) THEN Panic(o.m)
          ELSE IF IsErr(o) THEN Pop(o.m, o.err)
          ELSE callGroup(n, ctx, o.m, menv, k + 1, Grouped(grouped, o.frame))

\* case NodeIL_ASSIGN without its check of m.names
NeverBound(m, name) == FALSE

\* the check of case NodeIL_ASSIGN that the name is not bound yet
IsBound(m, name) == name \in DOMAIN m.names

\* an ASSIGN that stores every value under the first pointer
FirstPtr(m) == ptrStart

\* m.names[name] = m.ptr; m.heap[m.ptr] = ret: the pointer stored under
AssignPtr(m) == m.ptr

\* case NodeIL_ASSIGN.  The log entry names the return taken (why).
callAssign(n, ctx, m, menv) ==
  IF n.Value = NoValue THEN Panic(m)
  ELSE
    LET name == StrOf(n)
        fail(mm, why) ==
          Pop(Logged(mm, [ev |-> "assign", name |-> name, ok |-> FALSE,
                          code |-> "AssignmentError", why |-> why]),
              RuntimeError("AssignmentError"))
    IN IF name = <<>> THEN fail(m, "noname")
       ELSE IF n.SubType # kwConst THEN fail(m, "nonconst")
       ELSE IF n.Chained = NoNode THEN fail(m, "nochain")
       ELSE IF IsBound(m, name) THEN fail(m, "bound")
       ELSE
         LET o == call(n.Chained, ctx, m, menv)
         IN IF IsPanic(o) THEN Panic(o.m)
            ELSE IF IsErr(o)
            THEN Pop(Logged(o.m, [ev |-> "assign", name |-> name, ok |-> FALSE,
                                  code |-> o.err.Code, why |-> "rhserr"]), o.err)
            ELSE IF ~HasReturn(o.frame) THEN fail(o.m, "novalue")
            ELSE
              LET ret == o.frame[stackReturnPtr]
                  m1 == [o.m EXCEPT !.names = (name :> AssignPtr(o.m)) @@ @,
                                    !.heap = (AssignPtr(o.m) :> ret) @@ @]
              IN Pop(Logged(m1, [ev |-> "assign", name |-> name, ok |-> TRUE,
                                 code |-> "nil", why |-> "ok", ptr |-> AssignPtr(o.m),
                                 val |-> ret]), NoErr)

\* a read that takes the oldest value of the heap
OldestCell(m, name) ==
  m.heap[CHOOSE p \in DOMAIN m.heap : \A q \in DOMAIN m.heap : p <= q]

\* ptr, ok := m.names[name]; val, ok := m.heap[ptr]
VarCell(m, name) == m.heap[m.names[name]]

\* case NodeIL_VAR
callVar(n, ctx, m, menv) ==
  IF n.Value = NoValue THEN Panic(m)
  ELSE
    LET name == StrOf(n)
    IN IF name = <<>> THEN Pop(m, RuntimeError("VarErr"))
       ELSE IF name \notin DOMAIN m.names THEN Pop(m, RuntimeError("VarErr"))
       ELSE IF m.names[name] \notin DOMAIN m.heap THEN Pop(m, RuntimeError("VarErr"))
       ELSE Pop(Logged(sSet(m, stackReturnPtr, VarCell(m, name)),
                       [ev |-> "var", name |-> name, val |-> VarCell(m, name)]),
                NoErr)

\* call without its check of the stack level
NeverTooDeep(m) == FALSE

\* the check of the stack level, made after the push
TooDeep(m) == Len(m.stack) > maxStackLevel

\* what call does before it switches on the kind: push, the depth check,
\* the two slots of the node, the pointer
Enter(n, m) ==
  LET m1 == push(m)
  IN IF TooDeep(m1) THEN [deep |-> TRUE, m |-> m1]
     ELSE [deep |-> FALSE,
           m |-> [sSet(sSet(m1, stackNodeIDPtr, n.Id), stackNodeDescPtr, n.Id)
                    EXCEPT !.ptr = @ + 1]]

call(n, ctx, m, menv) ==
  LET e == Enter(n, m)
  IN IF e.deep THEN Out(e.m, EmptyFrame, RuntimeError("StackLevelTooDeep"))
     ELSE CASE n.Kind = "ROOT" -> callRoot(n, ctx, e.m, menv, 1)
            [] n.Kind = "VALUE" ->
                 IF ValuePanics(n) THEN Panic(e.m)
                 ELSE Pop(sSet(e.m, stackReturnPtr, n.Value), NoErr)
            [] n.Kind = "NAT" -> callNat(n, ctx, e.m, menv)
            [] n.Kind = "FUNC" -> callFunc(n, ctx, e.m, menv)
            [] n.Kind = "GROUP" -> callGroup(n, ctx, e.m, menv, 1, <<>>)
            [] n.Kind = "ASSIGN" -> callAssign(n, ctx, e.m, menv)
            [] n.Kind = "VAR" -> callVar(n, ctx, e.m, menv)
            [] OTHER -> Pop(e.m, RuntimeError("UnknownInstruction"))

(***************************************************************************)
(* New (the machine's registry) and the host registry of the tests.        *)
(***************************************************************************)
\* New: impl.mergeStdlib(); i := impl.dup().  The machine's Implementation
\* is the last of the world.
New(W, i) == dup(mergeStdlib(W, i), i)

HostImpl == 2

\* the world after i := impl() of the tests, with foo of "given a missing
\* function name" and a, a host function with a name of one rune: the
\* host's Implementation is HostImpl
HostWorld ==
  LET S3 == <<"string", "string", "string">>
      W0 == [StdWorld EXCEPT !.impls = Append(@, ZeroImpl)]
      W1 == Func(W0, HostImpl, Runes("alert"), Handler(S3, <<"string", "error">>, "val")).W
      W2 == Func(W1, HostImpl, Runes("warn"), Handler(S3, <<"string", "error">>, "val")).W
      W3 == Func(W2, HostImpl, Runes("recover"),
                 Handler(<<"ctx", "string", "string">>, <<"error">>, "nop")).W
      W4 == Func(W3, HostImpl, Runes("page"), Handler(<<"ctx">>, <<>>, "nop")).W
      W5 == Func(W4, HostImpl, Runes("scale-up"),
                 Handler(S3 \o <<"float64">>, <<"error">>, "nop")).W
      W6 == Func(W5, HostImpl, Runes("scale-down"),
                 Handler(S3 \o <<"float64">>, <<"error">>, "nop")).W
      W7 == Func(W6, HostImpl, Runes("slack"),
                 Handler(<<"string", "string">>, <<"error">>, "nop")).W
      W8 == Func(W7, HostImpl, Runes("enable"),
                 Handler(<<"string", "string", "bool">>, <<"error">>, "nop")).W
      W9 == Func(W8, HostImpl, Runes("foo"), Handler(<<>>, <<>>, "nop")).W
  IN Func(W9, HostImpl, Runes("a"), Handler(<<"string">>, <<"string">>, "val")).W

\* the world after New(i): the machine's Implementation is the last
MachineWorld == New(HostWorld, HostImpl)

(***************************************************************************)
(* Sources.  Every rune sequence up to MaxSrcLen over SrcAlphabet, every   *)
(* program of up to MaxStmts statements of Stmts, and the sources of the   *)
(* tests.                                                                  *)
(***************************************************************************)
MaxSrcLen == 4
MaxEvalLen == 3
MaxStmts == 3

SrcAlphabet == {"a", "f", "(", ")", ";", ".", TAB, NL, "$"}
SeqsUpTo(S, n) == UNION {[1..k -> S] : k \in 0..n}
ShortSources == SeqsUpTo(SrcAlphabet, MaxSrcLen)

Stmts ==
  << Runes("const a = set(x);"),
     Runes("_delete(a);"),
     Runes("const b = set($a);"),
     Runes("const a = foo();"),
     Runes("const a = fatal(x);"),
     Runes("a(f(x));") >>

RECURSIVE JoinStmts(_)
JoinStmts(q) ==
  IF q = <<>> THEN <<>> ELSE Stmts[Head(q)] \o <<NL>> \o JoinStmts(Tail(q))

StmtSources == {JoinStmts(q) : q \in SeqsUpTo(1..Len(Stmts), MaxStmts)}

\* sources of the tests of the compiler and of the machine, with shorter names
TestSources ==
  {Runes("foo().nf()"), Runes("foo(bar(f0.9) baz);"), Runes("a(two b(c) d);"),
   Runes("a(b c(d() e f(g)))"), Runes("foo(?bar)"), Runes("(a(x)|set(y)).ret();"),
   Runes("setf(abc);"), Runes("a(true);"), Runes("a(x);\nset(ret());"), Runes("ret().a(x);\n.ret();"), Runes("a(?\nb"),
   Runes("const a = set(x);\n_delete(a);\nconst a = set(y);\nset($a);"),
   Runes("const a = set(x);\nconst b = set(y);\n_delete(c);\n_delete(b);\nset($a);"),
   Runes("const a = set(x);\n_delete(true);\n_delete(f0.9);\nset($a);"),
   Runes("const a=a(x).a(y);")}

\* the sources compiled, and those of them that are also executed
EvalSources == SeqsUpTo(SrcAlphabet, MaxEvalLen) \cup StmtSources \cup TestSources
Sources == ShortSources \cup EvalSources

(***************************************************************************)
(* State.                                                                  *)
(***************************************************************************)
VARIABLES
  src,        \* the source text handed to CompileSource
  cphase,     \* "src", "compiled", "recompiled"
  progOf,     \* the program each caller holds
  prog2,      \* the program compiled from the first one's Source
  W,          \* the Implementations of the process and their maps
  lastOp,     \* history: the last registry operation and how it ended
  snap,       \* history: for each machine, its registry as New left it
  env,        \* Machine.env
  count,      \* Machine.count
  lastState,  \* Machine.lastState: "nil", or "st" for the state of the last walk
  sendq,      \* the goroutines blocked sending on Machine.exec, oldest first
  pc,         \* where each caller of Execute is
  result,     \* what Execute returned to each caller
  worker,     \* the goroutine of Machine.run
  st,         \* the machineST of the walk in progress (or of the last one)
  submitted,  \* history: the callers in the order they sent on Machine.exec
  events,     \* history: the walks begun and ended, in order
  envAtBegin, \* history: Machine.env as it was when each caller's walk began
  envSetAt,   \* history: the length of the walk's log at the last Setenv made
              \* during the walk, -1 when there was none
  down,       \* the caller of Shutdown: where it is and, as history, what
              \* the worker was doing when it called
  deep,       \* one call of a node from inside a nesting: the depth it is
              \* made at, the context, and what it returned
  cmp         \* one call of NodeCompare: its two nodes and what it returned

compVars == <<src, cphase, progOf, prog2, cmp>>
NoCmp == [pc |-> "none"]
regVars == <<W, lastOp, snap>>
vmVars == <<env, count, lastState, sendq, pc, result, worker, st,
            submitted, events, envAtBegin, envSetAt, down, deep>>
vars == <<src, cphase, progOf, prog2, W, lastOp, snap, env, count, lastState,
          sendq, pc, result, worker, st, submitted, events, envAtBegin, envSetAt,
          down, deep, cmp>>

NumCallers == 2
Callers == 1..NumCallers

NoProg == [ok |-> FALSE, phase |-> "none"]
NoOp == [op |-> "none", n |-> 0]
NoResult == [Code |-> "none"]
NoState == NewState(<<>>, <<>>)
NotDown == [pc |-> "idle", walking |-> 0, evRet |-> 0]
NotDeep == [pc |-> "none"]

\* the parts of the state a specification does not move
RegIdle == W = MachineWorld /\ lastOp = NoOp /\ snap = <<>>
VMIdle ==
  /\ env = <<>> /\ count = 0 /\ lastState = "nil" /\ sendq = <<>>
  /\ pc = [c \in Callers |-> "idle"]
  /\ result = [c \in Callers |-> NoResult]
  /\ worker = [pc |-> "recv", cur |-> 0, k |-> 0, out |-> NoErr]
  /\ st = NoState
  /\ submitted = <<>> /\ events = <<>> /\ envSetAt = -1
  /\ envAtBegin = [c \in Callers |-> <<>>]
  /\ down = NotDown
  /\ deep = NotDeep

(***************************************************************************)
(* Compilation                                                             *)
(***************************************************************************)
\* CompileSource(src), the program going to caller c
Compile(c) ==
  /\ cphase = "src"
  /\ progOf' = [progOf EXCEPT ![c] = CompileSource(src, 1)]
  /\ cphase' = "compiled"
  /\ UNCHANGED <<src, prog2, cmp, regVars, vmVars>>

\* CompileSource(p.Source) of a compiled program, as the test of the
\* generated source does
Recompile(c) ==
  /\ cphase = "compiled"
  /\ progOf[c].ok
  /\ prog2' = CompileSource(progOf[c].Source, progOf[c].nid)
  /\ cphase' = "recompiled"
  /\ UNCHANGED <<src, progOf, cmp, regVars, vmVars>>

\* p.IR() of a compiled program, loaded into a fresh program with LoadIR
Reload(c) ==
  /\ cphase = "compiled"
  /\ progOf[c].ok
  /\ prog2' = LoadIR(IR(progOf[c]))
  /\ cphase' = "loaded"
  /\ UNCHANGED <<src, progOf, cmp, regVars, vmVars>>

InitCompile ==
  /\ src \in Sources
  /\ cphase = "src"
  /\ progOf = [c \in Callers |-> NoProg]
  /\ prog2 = NoProg /\ cmp = NoCmp
  /\ RegIdle /\ VMIdle

NextCompile == Compile(1) \/ Recompile(1) \/ Reload(1)

SpecCompile == InitCompile /\ [][NextCompile]_vars

\* C3: for every source CompileSource accepts, compiling the Source of the
\* resulting program succeeds and gives an entry node NodeCompare reports
\* equal to the first entry node.
RoundTripEqual ==
  cphase = "recompiled" => prog2.ok /\ NodeCompare(progOf[1].Entry, prog2.Entry)

(***************************************************************************)
(* Registries.  Implementation 1 is the standard library's, Implementation *)
(* 2 the one the host made with &Implementation{}; dup and New make the    *)
(* others.  A panic of an operation is recovered by its caller and         *)
(* recorded.  A run makes up to MaxOps operations.                         *)
(***************************************************************************)
MaxOps == 4

RegNames == {Runes("a"), nameSet}
RegHandlers ==
  {Handler(<<"string">>, <<"string">>, "val"), Handler(<<"ctx">>, <<>>, "nop"), NotAFunc}

\* every Implementation but the standard library's own
Impls == 2..Len(W.impls)

Op(op, i, name, h, panic) ==
  [op |-> op, n |-> lastOp.n + 1, i |-> i, name |-> name, h |-> h, panic |-> panic,
   pre |-> FuncsOf(W, i), wasFrozen |-> isFrozen(W, i)]

RegFunc(i, name, h) ==
  \E r \in {Func(W, i, name, h)} :
     /\ lastOp.n < MaxOps
     /\ W' = r.W
     /\ lastOp' = Op("Func", i, name, h, r.panic)
     /\ UNCHANGED <<snap, compVars, vmVars>>

\* addFunc as stdlib() calls it: with std set, and without Func's check
RegAddFunc(i, name, h) ==
  \E r \in {addFunc(W, i, TRUE, name, h)} :
     /\ lastOp.n < MaxOps
     /\ W' = r.W
     /\ lastOp' = Op("addFunc", i, name, h, r.panic)
     /\ UNCHANGED <<snap, compVars, vmVars>>

RegMergeStdlib(i) ==
  /\ lastOp.n < MaxOps
  /\ W' = mergeStdlib(W, i)
  /\ lastOp' = Op("mergeStdlib", i, <<>>, NotAFunc, FALSE)
  /\ UNCHANGED <<snap, compVars, vmVars>>

\* Functions: the merge it starts with; the list it returns is not kept
RegFunctions(i) ==
  /\ lastOp.n < MaxOps
  /\ W' = mergeStdlib(W, i)
  /\ lastOp' = Op("Functions", i, <<>>, NotAFunc, FALSE)
  /\ UNCHANGED <<snap, compVars, vmVars>>

RegFreeze(i) ==
  /\ lastOp.n < MaxOps
  /\ W' = freeze(W, i)
  /\ lastOp' = Op("freeze", i, <<>>, NotAFunc, FALSE)
  /\ UNCHANGED <<snap, compVars, vmVars>>

RegDup(i) ==
  /\ lastOp.n < MaxOps
  /\ W' = dup(W, i)
  /\ lastOp' = Op("dup", i, <<>>, NotAFunc, FALSE)
  /\ UNCHANGED <<snap, compVars, vmVars>>

\* New(impl): the machine's registry is the Implementation dup made
RegNew(i) ==
  /\ lastOp.n < MaxOps
  /\ W' = New(W, i)
  /\ lastOp' = Op("New", i, <<>>, NotAFunc, FALSE)
  /\ snap' = Append(snap, [vm |-> Len(W'.impls), host |-> i,
                           funcs |-> FuncsOf(W', Len(W'.impls))])
  /\ UNCHANGED <<compVars, vmVars>>

InitReg ==
  /\ W = [StdWorld EXCEPT !.impls = Append(@, ZeroImpl)]
  /\ lastOp = NoOp
  /\ snap = <<>>
  /\ src = <<>> /\ cphase = "src" /\ prog2 = NoProg /\ cmp = NoCmp
  /\ progOf = [c \in Callers |-> NoProg]
  /\ VMIdle

NextReg ==
  \/ \E i \in Impls, name \in RegNames, h \in RegHandlers : RegFunc(i, name, h)
  \/ \E i \in Impls, name \in RegNames, h \in RegHandlers : RegAddFunc(i, name, h)
  \/ \E i \in Impls : RegMergeStdlib(i)
  \/ \E i \in Impls : RegFunctions(i)
  \/ \E i \in Impls : RegFreeze(i)
  \/ \E i \in Impls : RegDup(i)
  \/ \E i \in Impls : RegNew(i)

SpecReg == InitReg /\ [][NextReg]_vars

LookupNames == RegNames \cup DOMAIN stdlibFuncs(W)

\* the lookup of a name in a map of functions kept aside
lookupIn(funcs, name) ==
  IF name \in DOMAIN funcs
  THEN [fn |-> funcs[name], err |-> NoErr]
  ELSE [fn |-> NotAFunc, err |-> NotFound]

\* C8: whatever is done to the registries after New has returned, every
\* lookup of a name by the machine gives what it gave when New returned.
VMLookupsFixed ==
  \A k \in 1..Len(snap) : \A name \in LookupNames :
    lookup(W, snap[k].vm, name) = lookupIn(snap[k].funcs, name)

\* a machine whose host registry has since gained a function the machine
\* does not resolve
C8Witness ==
  \E k \in 1..Len(snap) : \E name \in LookupNames :
    /\ lookup(W, snap[k].host, name).err = NoErr
    /\ lookup(W, snap[k].vm, name).err = NotFound

\* C9: a Func whose name is a standard-library name, or is registered in
\* the registry already, panics and leaves the registry's map as it was.
FuncRejectsTaken ==
  (lastOp.op = "Func" /\ (stdlibHasFunc(W, lastOp.name) \/ lastOp.name \in DOMAIN lastOp.pre))
    => lastOp.panic /\ FuncsOf(W, lastOp.i) = lastOp.pre

\* a host name registered a second time with another handler on a registry
\* that is not frozen
C9Witness ==
  /\ lastOp.op = "Func"
  /\ ~stdlibHasFunc(W, lastOp.name)
  /\ lastOp.name \in DOMAIN lastOp.pre
  /\ lastOp.h.isFunc
  /\ lastOp.pre[lastOp.name].impl # lastOp.h.impl
  /\ ~lastOp.wasFrozen
  /\ lastOp.panic

\* C10: an operation on a registry that was frozen leaves the registry's
\* functions as they were, and panics if it is Func or addFunc.
FrozenNeverChanges ==
  (lastOp.op # "none" /\ lastOp.wasFrozen)
    => /\ FuncsOf(W, lastOp.i) = lastOp.pre
       /\ lastOp.op \in {"Func", "addFunc"} => lastOp.panic

(***************************************************************************)
(* The machine.  Its registry is MachineImpl of W.  Execute is CallExecute *)
(* (the check of the names and the send on Machine.exec), Receive (the     *)
(* worker's receive) and Deliver (the exchange on the process's done       *)
(* channel); execute is ExecBegin, a WalkStep for each child of the entry  *)
(* node, and Finish.  A send blocked on Machine.exec waits in the          *)
(* channel's queue of senders, which the Go runtime serves oldest first.   *)
(* A panic in the walk ends the process.                                   *)
(***************************************************************************)
EnvKeys == {Runes("k")}
EnvVals == {Runes("x")}

\* m.impl: the Implementation New made, the last of the world
MachineImpl == Len(W.impls)
\* m.impl.lookup, as the table it looks names up in
MachineFuncs == FuncsOf(W, MachineImpl)

Alive == worker.pc # "crashed"

Range(q) == {q[i] : i \in 1..Len(q)}

\* Execute without its loop over p.FuncCalls
NoPreCheck(p) == NoErr

\* the loop of Execute over p.FuncCalls: the error of a name the registry
\* does not hold, when there is one
PreCheck(p) ==
  IF \E name \in DOMAIN p.FuncCalls : lookup(W, MachineImpl, name).err # NoErr
  THEN NotFound ELSE NoErr

CallExecute(c) ==
  /\ Alive
  /\ pc[c] = "idle"
  /\ progOf[c].ok
  /\ \E err \in {PreCheck(progOf[c])} :
     IF err # NoErr
     THEN /\ pc' = [pc EXCEPT ![c] = "returned"]
          /\ result' = [result EXCEPT ![c] = err]
          /\ UNCHANGED <<sendq, submitted>>
     ELSE /\ pc' = [pc EXCEPT ![c] = "send"]
          /\ sendq' = Append(sendq, c)
          /\ submitted' = Append(submitted, c)
          /\ UNCHANGED result
  /\ UNCHANGED <<env, count, lastState, worker, st, events, envAtBegin, envSetAt,
                 down, deep, compVars, regVars>>

\* the program the worker holds: received and not yet delivered
Walking(w) == IF w.pc \in {"begin", "walk", "finish", "deliver"} THEN w.cur ELSE 0

\* Shutdown up to its send: m.exec <- nil (0 stands for the nil process)
Shutdown ==
  /\ Alive
  /\ down.pc = "idle"
  /\ sendq' = Append(sendq, 0)
  /\ down' = [down EXCEPT !.pc = "send", !.walking = Walking(worker)]
  /\ UNCHANGED <<env, count, lastState, pc, result, worker, st, submitted, events,
                 envAtBegin, envSetAt, deep, compVars, regVars>>

\* the sender a receive on Machine.exec takes, as its place in the queue
LastSender(q) == Len(q)

NextSender(q) == 1

\* the worker is at the receive of run, whose loop calls runPro itself
WorkerAlsoWalking(w) == w.pc \in {"recv", "walk"}

WorkerReady(w) == w.pc = "recv"

\* runPro that goes on after a nil process as if it had none
IgnoresNil(w) == w

\* runPro on a nil process: runtime.Goexit ends the worker's goroutine
AfterNil(w) == [w EXCEPT !.pc = "exited"]

\* case p := <-m.exec, and the nil check of runPro; the receive of the nil
\* process is what lets Shutdown return
Receive ==
  /\ Alive
  /\ WorkerReady(worker)
  /\ sendq # <<>>
  /\ LET at == NextSender(sendq)
         p == sendq[at]
     IN /\ sendq' = [i \in 1..(Len(sendq) - 1) |-> IF i < at THEN sendq[i] ELSE sendq[i + 1]]
        /\ IF p = 0
           THEN /\ worker' = AfterNil(worker)
                /\ down' = [down EXCEPT !.pc = "returned", !.evRet = Len(events)]
                /\ UNCHANGED pc
           ELSE /\ worker' = [pc |-> "begin", cur |-> p, k |-> 0, out |-> NoErr]
                /\ pc' = [pc EXCEPT ![p] = "wait"]
                /\ UNCHANGED down
  /\ UNCHANGED <<env, count, lastState, result, st, submitted, events, envAtBegin,
                 envSetAt, deep, compVars, regVars>>

\* an execute that goes on with the heap, the names and the pointer the
\* last one left
KeptState(prev, menv, lk) ==
  [NewState(menv, lk) EXCEPT !.heap = prev.heap, !.names = prev.names,
                             !.ptr = prev.ptr]

\* s := &machineST{...}: the state execute sets up, whatever the last
\* execution left
StartState(prev, menv, lk) == NewState(menv, lk)

\* execute up to the loop over the entry node's children: the reset of
\* lastState and the copy of the environment under the lock, the new
\* machineST, and what call does when it enters the entry node
ExecBegin ==
  /\ Alive
  /\ worker.pc = "begin"
  /\ lastState' = "nil"
  /\ \E entry \in {progOf[worker.cur].Entry} :
     \E e \in {Enter(entry, StartState(st, env, MachineFuncs))} :
        IF entry.Kind = "ROOT" /\ Len(entry.Children) > 0
        THEN /\ st' = e.m
             /\ worker' = [worker EXCEPT !.pc = "walk", !.k = 1]
        ELSE \E o \in {callRoot(entry, NoRetCtx, e.m, env, 1)} :
                /\ st' = o.m
                /\ worker' = [worker EXCEPT !.pc = "finish", !.out = o.err]
  /\ envAtBegin' = [envAtBegin EXCEPT ![worker.cur] = env]
  /\ events' = Append(events, [ev |-> "begin", c |-> worker.cur])
  /\ envSetAt' = -1
  /\ UNCHANGED <<env, count, sendq, pc, result, submitted, down, deep, compVars, regVars>>

\* a loop that goes on to the next statement whatever the last one returned
NeverStopsWalk(o) == FALSE

\* if err != nil { return m.pop(), err }
StopsWalk(o) == IsErr(o)

\* one turn of the loop of case NodeIL_ROOT for the entry node
WalkStep ==
  /\ Alive
  /\ worker.pc = "walk"
  /\ \E entry \in {progOf[worker.cur].Entry} :
     \E o \in {call(entry.Children[worker.k], NoRetCtx, st, env)} :
        IF IsPanic(o)
        THEN /\ st' = o.m
             /\ worker' = [worker EXCEPT !.pc = "crashed"]
        ELSE IF StopsWalk(o)
        THEN /\ st' = Pop(o.m, o.err).m
             /\ worker' = [worker EXCEPT !.pc = "finish", !.out = o.err]
        ELSE IF worker.k = Len(entry.Children)
        THEN /\ st' = Pop(o.m, NoErr).m
             /\ worker' = [worker EXCEPT !.pc = "finish", !.out = NoErr]
        ELSE /\ st' = o.m
             /\ worker' = [worker EXCEPT !.k = @ + 1]
  /\ UNCHANGED <<env, count, lastState, sendq, pc, result, submitted, events,
                 envAtBegin, envSetAt, down, deep, compVars, regVars>>

\* the end of execute: count and lastState under the lock
Finish ==
  /\ Alive
  /\ worker.pc = "finish"
  /\ count' = count + 1
  /\ lastState' = "st"
  /\ worker' = [worker EXCEPT !.pc = "deliver"]
  /\ events' = Append(events, [ev |-> "end", c |-> worker.cur])
  /\ UNCHANGED <<env, sendq, pc, result, st, submitted, envAtBegin, envSetAt,
                 down, deep, compVars, regVars>>

\* runPro that sends true whatever execute returned
DeliversTrue(err) == [Code |-> "true"]

\* what runPro sends on p.done
Delivers(err) == IF err # NoErr THEN err ELSE [Code |-> "true"]

\* the type switch of Execute on what it received
Returns(out) == IF out.Code = "true" THEN NoErr ELSE out

\* a runPro that sends on p.done only when execute returned no error
SendsOnSuccess(err) == err = NoErr

\* if err != nil { p.done <- err } else { p.done <- true }: runPro sends on
\* p.done whatever execute returned
Sends(err) == TRUE

\* p.done <- ... in runPro and out := <-pro.done in Execute
Deliver ==
  /\ Alive
  /\ worker.pc = "deliver"
  /\ pc[worker.cur] = "wait"
  /\ Sends(worker.out)
  /\ result' = [result EXCEPT ![worker.cur] = Returns(Delivers(worker.out))]
  /\ pc' = [pc EXCEPT ![worker.cur] = "returned"]
  /\ worker' = [worker EXCEPT !.pc = "recv"]
  /\ events' = Append(events, [ev |-> "deliver", c |-> worker.cur])
  /\ UNCHANGED <<env, count, lastState, sendq, st, submitted, envAtBegin, envSetAt,
                 down, deep, compVars, regVars>>

Setenv(name, value) ==
  /\ Alive
  /\ env' = (name :> value) @@ env
  /\ envSetAt' = IF worker.pc = "walk" THEN Len(st.log) ELSE -1
  /\ UNCHANGED <<count, lastState, sendq, pc, result, worker, st, submitted,
                 events, envAtBegin, down, deep, compVars, regVars>>

(***************************************************************************)
(* SpecEval: one source is compiled and its program executed.              *)
(***************************************************************************)
InitEval ==
  /\ src \in EvalSources
  /\ cphase = "src"
  /\ progOf = [c \in Callers |-> NoProg]
  /\ prog2 = NoProg /\ cmp = NoCmp
  /\ RegIdle /\ VMIdle

NextEval ==
  \/ Compile(1)
  \/ \E c \in Callers : CallExecute(c)
  \/ Receive
  \/ ExecBegin
  \/ WalkStep
  \/ Finish
  \/ Deliver

SpecEval == InitEval /\ [][NextEval]_vars

(***************************************************************************)
(* SpecVM: the callers execute programs of VMSources on one machine while  *)
(* the host sets the environment and shuts the machine down.               *)
(***************************************************************************)
VMSources ==
  {Runes("set(env(k));\nset(env(k));"), Runes("fatal(x);"), Runes("f(x);")}
VMPrograms == {CompileSource(s, 1) : s \in VMSources}

InitVM ==
  /\ src = <<>>
  /\ cphase = "compiled"
  /\ progOf \in [Callers -> VMPrograms]
  /\ prog2 = NoProg /\ cmp = NoCmp
  /\ RegIdle /\ VMIdle

NextVM ==
  \/ \E c \in Callers : CallExecute(c)
  \/ Receive
  \/ ExecBegin
  \/ WalkStep
  \/ Finish
  \/ Deliver
  \/ \E name \in EnvKeys, value \in EnvVals : Setenv(name, value)
  \/ Shutdown

SpecVM == InitVM /\ [][NextVM]_vars

(***************************************************************************)
(* SpecRerun: the callers execute, one after the other on one machine,     *)
(* programs that bind a constant, read it or delete it.                    *)
(***************************************************************************)
RerunSources ==
  {Runes("const a = set(x);"), Runes("set($a);"),
   Runes("const a = set(x);\n_delete(a);"), Runes("const a = set(x);\nset($a);")}
RerunPrograms == {CompileSource(s, 1) : s \in RerunSources}

InitRerun ==
  /\ src = <<>>
  /\ cphase = "compiled"
  /\ progOf \in [Callers -> RerunPrograms]
  /\ prog2 = NoProg /\ cmp = NoCmp
  /\ RegIdle /\ VMIdle

NextRerun ==
  \/ \E c \in Callers : CallExecute(c)
  \/ Receive
  \/ ExecBegin
  \/ WalkStep
  \/ Finish
  \/ Deliver

SpecRerun == InitRerun /\ [][NextRerun]_vars

(***************************************************************************)
(* SpecLive: the callers execute programs on one machine that is never     *)
(* shut down, while the host sets the environment.  The worker's goroutine *)
(* is always scheduled again: each of its steps is weakly fair.  Senders   *)
(* blocked on Machine.exec are served oldest first by the Go runtime, and  *)
(* the handlers return, so that a step of the walk is always enabled.      *)
(***************************************************************************)
LiveSources == VMSources \cup {Runes("setf(x);")}
LivePrograms == {CompileSource(s, 1) : s \in LiveSources}

InitLive ==
  /\ src = <<>>
  /\ cphase = "compiled"
  /\ progOf \in [Callers -> LivePrograms]
  /\ prog2 = NoProg /\ cmp = NoCmp
  /\ RegIdle /\ VMIdle

NextLive ==
  \/ \E c \in Callers : CallExecute(c)
  \/ Receive
  \/ ExecBegin
  \/ WalkStep
  \/ Finish
  \/ Deliver
  \/ \E name \in EnvKeys, value \in EnvVals : Setenv(name, value)

\* the worker leaves the statement that it walks, the handlers returning: it
\* goes on to the next statement, ends the walk, or the walk panics.  Of the
\* steps of NextLive these are the steps of WalkStep, which is enabled
\* whenever the worker is at a statement.
WalkTurn ==
  /\ Alive
  /\ worker.pc = "walk"
  /\ \/ worker' = [worker EXCEPT !.k = @ + 1]
     \/ worker'.pc \in {"finish", "crashed"}

WorkerFair ==
  /\ WF_vars(Receive)
  /\ WF_vars(ExecBegin)
  /\ WF_worker(WalkTurn)
  /\ WF_vars(Finish)
  /\ WF_vars(Deliver)

SpecLive == InitLive /\ [][NextLive]_vars /\ WorkerFair

(***************************************************************************)
(* Properties of Execute                                                   *)
(***************************************************************************)
\* a FUNC node of the tree under n, child or chained at any depth, whose
\* name the machine's registry does not hold
RECURSIVE HasUnknownFunc(_, _)
HasUnknownFunc(n, funcs) ==
  \/ n.Kind = "FUNC" /\ StrOf(n) \notin DOMAIN funcs
  \/ \E k \in 1..Len(n.Children) : HasUnknownFunc(n.Children[k], funcs)
  \/ n.Chained # NoNode /\ HasUnknownFunc(n.Chained, funcs)

Submitted(c) == c \in Range(submitted)
Walked(c) == \E i \in 1..Len(events) : events[i].c = c

\* C1: an Execute of a compiled program that holds a FUNC node of a name
\* the registry lacks returns FuncNotFound; the program is never sent to the
\* worker and no walk, hence no handler, runs for it.
UnknownFuncFailsFirst ==
  \A c \in Callers :
    (progOf[c].ok /\ pc[c] # "idle" /\ HasUnknownFunc(progOf[c].Entry, MachineFuncs))
      => /\ pc[c] = "returned"
         /\ result[c] = NotFound
         /\ ~Submitted(c)
         /\ ~Walked(c)

\* an Execute that has returned for a program whose unknown FUNC nodes all
\* lie below the statements: a walk would have invoked handlers first
C1Witness ==
  \E c \in Callers :
    /\ progOf[c].ok /\ pc[c] = "returned"
    /\ HasUnknownFunc(progOf[c].Entry, MachineFuncs)
    /\ Len(progOf[c].Entry.Children) > 0
    /\ \A k \in 1..Len(progOf[c].Entry.Children) :
         LET n == progOf[c].Entry.Children[k]
         IN n.Kind = "FUNC" /\ StrOf(n) \in DOMAIN MachineFuncs

\* name is bound when entry i of the log is made: an earlier ASSIGN bound
\* it and no _delete of it came between
BoundBefore(log, i, name) ==
  \E j \in 1..(i - 1) :
    /\ log[j].ev = "assign" /\ log[j].ok /\ log[j].name = name
    /\ \A k \in (j + 1)..(i - 1) : ~(log[k].ev = "delete" /\ log[k].name = name)

\* C2: in a walk, an ASSIGN with a name, the sub-type const and a RHS
\* fails as a reassignment exactly when its name is bound; when the name is
\* not bound and the RHS returns a value it succeeds, and the name is bound
\* to that value.
AssignFailsIffBound ==
  \A i \in 1..Len(st.log) :
    LET e == st.log[i]
    IN (e.ev = "assign" /\ e.why \notin {"noname", "nonconst", "nochain"})
         => /\ (e.why = "bound") <=> BoundBefore(st.log, i, e.name)
            /\ e.why = "bound" => ~e.ok /\ e.code = "AssignmentError"
            /\ (e.why \notin {"bound", "rhserr", "novalue"}) => e.ok
            /\ (e.ok /\ i = Len(st.log))
                 => /\ e.name \in DOMAIN st.names
                    /\ st.heap[st.names[e.name]] = e.val

\* a walk that has failed on an ASSIGN of a name still bound
C2Witness ==
  \E i \in 1..Len(st.log) :
    /\ st.log[i].ev = "assign"
    /\ st.log[i].why = "bound"
    /\ worker.pc = "finish"
    /\ worker.out = RuntimeError("AssignmentError")

\* the walk of program p from the environment e, as one call of the entry node
Outcome(p, e, funcs) == call(p.Entry, NoRetCtx, NewState(e, funcs), e).err

\* C4: the walks of one machine follow each other: a walk begins only when
\* no walk was made yet or the last one has ended and its result was taken.
OneWalkAtATime ==
  \A i \in 1..Len(events) :
    /\ events[i].ev = "begin" => (i = 1 \/ events[i - 1].ev = "deliver")
    /\ events[i].ev = "end" => (i > 1 /\ events[i - 1] = [ev |-> "begin", c |-> events[i].c])
    /\ events[i].ev = "deliver" => (i > 1 /\ events[i - 1] = [ev |-> "end", c |-> events[i].c])

\* a walk in progress while another caller's program waits to be received
C4Witness ==
  /\ worker.pc = "walk"
  /\ \E c \in Callers : c # worker.cur /\ pc[c] = "send"

\* C5: an Execute that passed the check of the names has returned only
\* after the walk of its own program ended, and with the outcome of that
\* walk.
ExecuteReturnsOwnOutcome ==
  \A c \in Callers :
    (pc[c] = "returned" /\ Submitted(c))
      => /\ \E i \in 1..Len(events) : events[i] = [ev |-> "end", c |-> c]
         /\ result[c] = Outcome(progOf[c], envAtBegin[c], MachineFuncs)

\* two callers have returned from walks with different outcomes
C5Witness ==
  \E c, d \in Callers :
    /\ pc[c] = "returned" /\ Submitted(c)
    /\ pc[d] = "returned" /\ Submitted(d)
    /\ result[c] = NoErr
    /\ result[d] # NoErr

EnvGet(e, name) == IF name \in DOMAIN e THEN e[name] ELSE <<>>

InWalk == worker.pc \in {"walk", "finish", "deliver"}

\* C7: every call of env in a walk returned the value the name had when
\* the walk began, whatever Setenv did since.
EnvIsSnapshot ==
  InWalk =>
    \A i \in 1..Len(st.log) :
      (st.log[i].ev = "invoke" /\ st.log[i].name = nameEnv)
        => st.log[i].ret = StrV(EnvGet(envAtBegin[worker.cur], st.log[i].args[1].v))

\* env was called after a Setenv made during the walk, and returned another
\* value than the one Setenv had just stored
C7Witness ==
  /\ InWalk
  /\ envSetAt >= 0
  /\ \E i \in (envSetAt + 1)..Len(st.log) :
       /\ st.log[i].ev = "invoke" /\ st.log[i].name = nameEnv
       /\ st.log[i].ret # StrV(EnvGet(env, st.log[i].args[1].v))

(***************************************************************************)
(* SpecDeep: one call of a node, either the entry node of a program from   *)
(* the empty stack, as execute makes it, or a FUNC node called from inside *)
(* a nesting of base nodes whose calls are in progress (the arguments of   *)
(* a(a(a(...))), the links of a chain), each with its frame on the stack.  *)
(***************************************************************************)
MaxDeep == 3
DeepBases == (maxStackLevel - MaxDeep)..maxStackLevel

DeepSources ==
  {Runes("a(x)"), Runes("a(a(x))"), Runes("a(a(a(x)))"), Runes("a(x).a(x)"),
   Runes("a(x).a(x).a(x)"), Runes("a(a(x)).a(x)"), Runes("fatal(x)"),
   Runes("a(fatal(x))"), Runes("a(foo())"), Runes("foo()"), Runes("foo().a(x)"),
   Runes("a($v)"), Runes("a(x).ret()"), Runes("set(a(x))"), Runes("a(x).nf()"),
   Runes("a(a(nf(x)))"), Runes("ret().a(x)"), Runes("ret()"),
   Runes("a(x).set(y)"), Runes("a(x).foo()"), Runes("set(x).set(y).set(z)"),
   Runes("a(x).a(set(y))"), Runes("a(x).page()"),
   Runes("slack(fatal(x) a(y))"), Runes("slack(foo() a(y))"),
   Runes("slack(a(x) a(y))"), Runes("slack(a(x) fatal(y))"),
   Runes("a(ret() (set(y)))"), Runes("fatal(x).a(y)"), Runes("foo(x).a(y)"),
   Runes("a()"), Runes("a(x y)"), Runes("ret(x)"), Runes("env(k)"),
   Runes("page()"), Runes("page(x)"), Runes("setf(x)")}
GroupSources ==
  {Runes("(a(x)|set(y)).ret()"), Runes("(a(x)|foo()).ret()"),
   Runes("(foo()|a(x)).ret()"), Runes("(a(x)|set(y))"), Runes("(a(x)).foo()"),
   Runes("(a(x)|set(y)).set(z)"), Runes("(foo()).ret()"),
   Runes("(a(x).set(y)).ret()"), Runes("(fatal(y)).ret()"),
   Runes("(a(x)|ret())")}
EntrySources == StmtSources \cup TestSources \cup DeepSources \cup GroupSources

\* the contexts a nested call is made with: the caller's own, or (for a
\* link of a chain) the one that carries the return of a
DeepCtxs == {NoRetCtx, WithRet(StrV(Runes("a")))}

\* the frame of a node whose call is in progress: its two slots
EnclosingFrame(id) == (stackNodeIDPtr :> id) @@ (stackNodeDescPtr :> id)

\* the machineST inside base calls in progress
DeepState(base, lk) ==
  [NewState(<<>>, lk) EXCEPT !.stack = [i \in 1..base |-> EnclosingFrame(0)],
                             !.ptr = ptrStart + base]

\* the programs of one statement that is a call of a function
IsFuncStmt(p) ==
  p.ok /\ Len(p.Entry.Children) = 1 /\ p.Entry.Children[1].Kind = "FUNC"

\* the machineST when the entry node calls its first child: the frame of
\* the entry node and the pointer moved once
RootState(entry, lk) ==
  [NewState(<<>>, lk) EXCEPT !.stack = <<EnclosingFrame(entry.Id)>>,
                             !.ptr = ptrStart + 1]

InitDeep ==
  /\ cphase = "compiled"
  /\ prog2 = NoProg /\ cmp = NoCmp
  /\ RegIdle
  /\ env = <<>> /\ count = 0 /\ lastState = "nil" /\ sendq = <<>>
  /\ pc = [c \in Callers |-> "idle"]
  /\ result = [c \in Callers |-> NoResult]
  /\ worker = [pc |-> "recv", cur |-> 0, k |-> 0, out |-> NoErr]
  /\ submitted = <<>> /\ events = <<>> /\ envSetAt = -1
  /\ envAtBegin = [c \in Callers |-> <<>>]
  /\ down = NotDown
  /\ \/ /\ src \in EntrySources
        /\ \E p \in {CompileSource(src, 1)} :
             /\ p.ok
             /\ progOf = [c \in Callers |-> p]
             /\ deep = [pc |-> "ready", base |-> 0, ctx |-> NoRetCtx, node |-> p.Entry]
        /\ st = NewState(<<>>, MachineFuncs)
     \/ /\ src \in DeepSources
        /\ \E p \in {CompileSource(src, 1)} : \E b \in DeepBases : \E ctx \in DeepCtxs :
             /\ IsFuncStmt(p)
             /\ progOf = [c \in Callers |-> p]
             /\ deep = [pc |-> "ready", base |-> b, ctx |-> ctx,
                        node |-> p.Entry.Children[1]]
             /\ st = DeepState(b, MachineFuncs)
     \/ /\ src \in GroupSources \cup DeepSources
        /\ \E p \in {CompileSource(src, 1)} :
             /\ p.ok /\ Len(p.Entry.Children) > 0
             /\ progOf = [c \in Callers |-> p]
             /\ deep = [pc |-> "ready", base |-> 1, ctx |-> NoRetCtx,
                        node |-> p.Entry.Children[1]]
             /\ st = RootState(p.Entry, MachineFuncs)

\* node.call(ctx, m)
DeepCall ==
  /\ deep.pc = "ready"
  /\ \E o \in {call(deep.node, deep.ctx, st, env)} :
       /\ st' = o.m
       /\ deep' = [deep EXCEPT !.pc = "done"] @@ [err |-> o.err, frame |-> o.frame]
  /\ UNCHANGED <<env, count, lastState, sendq, pc, result, worker, submitted, events,
                 envAtBegin, envSetAt, down, compVars, regVars>>

NextDeep == DeepCall

SpecDeep == InitDeep /\ [][NextDeep]_vars

\* the frames the evaluation of a node can have on the stack at once, its
\* own counted: one more than the most its arguments or its chain need
RECURSIVE FrameDepth(_)
FrameDepth(n) ==
  LET below == {FrameDepth(n.Children[k]) : k \in 1..Len(n.Children)}
                 \cup (IF n.Chained = NoNode THEN {} ELSE {FrameDepth(n.Chained)})
  IN 1 + (IF below = {} THEN 0 ELSE CHOOSE d \in below : \A e \in below : e <= d)

\* what the same call returns where the stack has room for all of it
Unbounded(n, ctx, lk) == call(n, ctx, NewState(<<>>, lk), <<>>).err

StackLevelTooDeep == RuntimeError("StackLevelTooDeep")

\* C12: a call whose evaluation needs more frames than maxStackLevel, and
\* would otherwise succeed, fails with StackLevelTooDeep; no handler was
\* invoked from a frame beyond the limit; and a call that needs no more
\* than maxStackLevel frames returns what it returns on an empty stack,
\* never StackLevelTooDeep.
StackLimit ==
  deep.pc = "done" =>
    LET need == deep.base + FrameDepth(deep.node)
        free == Unbounded(deep.node, deep.ctx, MachineFuncs)
    IN /\ (need > maxStackLevel /\ free = NoErr) => deep.err = StackLevelTooDeep
       /\ need <= maxStackLevel => deep.err = free /\ deep.err # StackLevelTooDeep
       /\ \A i \in 1..Len(st.log) :
            st.log[i].ev = "invoke" => st.log[i].depth <= maxStackLevel

\* a call that failed with StackLevelTooDeep after a handler was invoked
\* from a frame at the limit
C12Witness ==
  /\ deep.pc = "done"
  /\ deep.err = StackLevelTooDeep
  /\ \E i \in 1..Len(st.log) :
       st.log[i].ev = "invoke" /\ st.log[i].depth = maxStackLevel

\* C13: whatever a call returns, the stack is as deep when it returns as it
\* was before the call.
CallPopsItsFrame ==
  (deep.pc = "done" /\ ~IsPanic([err |-> deep.err]))
    => Len(st.stack) = deep.base

\* C14: the walk of a compiled program never panics: the worker is never
\* ended by the evaluation, so every Execute that was sent gets its answer.
WalkNeverPanics == worker.pc # "crashed"

\* two reflect.Values hold the same: the same kind and the same content
RECURSIVE SameValue(_, _)
SameValue(a, b) ==
  /\ a.Kind = b.Kind
  /\ CASE a.Kind \in {"ZERO", "NILIFACE"} -> TRUE
       [] a.Kind = "IFACE" -> SameValue(a.v, b.v)
       [] a.Kind = "LIST" ->
            /\ Len(a.v) = Len(b.v)
            /\ \A k \in 1..Len(a.v) : SameValue(a.v[k], b.v[k])
       [] OTHER -> a.v = b.v

\* the entry of the log for the handler invoked by the node of that id
InvokeOf(log, id) == CHOOSE i \in 1..Len(log) : log[i].ev = "invoke" /\ log[i].node = id
Invoked(log, id) == \E i \in 1..Len(log) : log[i].ev = "invoke" /\ log[i].node = id

\* what a node returns by the rules of the claims, given what the handlers
\* returned (ZeroValue for no return): a VALUE its value; a FUNC its
\* chain's return when there is one, else its handler's; a GROUP its
\* chain's return, and none without a chain
RECURSIVE VisibleReturn(_, _)
VisibleReturn(log, n) ==
  LET chained == IF n.Chained = NoNode THEN ZeroValue
                 ELSE VisibleReturn(log, n.Chained)
  IN CASE n.Kind = "VALUE" -> n.Value
       [] n.Kind = "FUNC" ->
            IF chained.Kind # "ZERO" THEN chained ELSE log[InvokeOf(log, n.Id)].ret
       [] n.Kind = "GROUP" -> chained
       [] OTHER -> ZeroValue

ChainedFuncDone ==
  /\ deep.pc = "done" /\ deep.err = NoErr
  /\ deep.node.Kind = "FUNC"
  /\ deep.node.Chained # NoNode
  /\ deep.node.Chained.Kind = "FUNC"

\* C15: when a FUNC whose handler returns a value has a chain, the chain's
\* handler is invoked with the handler's return as its last return, and
\* the frame the FUNC returns holds the chain's return when the chain has
\* one and the handler's return when it has none.
ChainGetsHandlerReturn ==
  ChainedFuncDone =>
    /\ Invoked(st.log, deep.node.Id) /\ Invoked(st.log, deep.node.Chained.Id)
    /\ LET own == st.log[InvokeOf(st.log, deep.node.Id)]
           next == st.log[InvokeOf(st.log, deep.node.Chained.Id)]
       IN /\ own.name = StrOf(deep.node)
          /\ own.ret.Kind # "ZERO"
          /\ SameValue(next.last, own.ret)
          /\ HasReturn(deep.frame)
          /\ SameValue(deep.frame[stackReturnPtr], VisibleReturn(st.log, deep.node))

\* a chain that returned another value than the handler it hangs from
C15Witness ==
  /\ ChainedFuncDone
  /\ SameValue(st.log[InvokeOf(st.log, deep.node.Id)].ret, StrV(Runes("a")))
  /\ SameValue(deep.frame[stackReturnPtr], StrV(Runes("y")))

\* the returns of the children of a node by VisibleReturn, in order, the
\* children without a return left out
ChildReturns(log, n) ==
  LET all == [k \in 1..Len(n.Children) |-> VisibleReturn(log, n.Children[k])]
      Returned(v) == v.Kind # "ZERO"
  IN SelectSeq(all, Returned)

GroupDone ==
  /\ deep.pc = "done" /\ deep.err = NoErr
  /\ deep.node.Kind = "GROUP"

\* C16: the chain of a GROUP is invoked with the list of the returns of the
\* group's children, in order and without the children that returned
\* nothing, as its last return; the frame the GROUP returns holds the
\* chain's return when the chain has one, and no return otherwise.
GroupChainGetsList ==
  GroupDone =>
    LET g == deep.node
        out == VisibleReturn(st.log, g)
    IN /\ (g.Chained # NoNode /\ g.Chained.Kind = "FUNC") =>
            /\ Invoked(st.log, g.Chained.Id)
            /\ SameValue(st.log[InvokeOf(st.log, g.Chained.Id)].last,
                         ListV(ChildReturns(st.log, g)))
       /\ HasReturn(deep.frame) <=> out.Kind # "ZERO"
       /\ HasReturn(deep.frame) => SameValue(deep.frame[stackReturnPtr], out)

\* a group of a child that returned nothing and one that returned a value,
\* whose chain was handed the list of that one value and returned it
C16Witness ==
  /\ GroupDone
  /\ Len(deep.node.Children) = 2
  /\ Len(ChildReturns(st.log, deep.node)) = 1
  /\ HasReturn(deep.frame)
  /\ deep.frame[stackReturnPtr].Kind = "IFACE"

\* the sum of a sequence of numbers
RECURSIVE SumSeq(_)
SumSeq(q) == IF q = <<>> THEN 0 ELSE Head(q) + SumSeq(Tail(q))

\* the FUNC nodes of that name in the tree of n: n itself, its children
\* and its chain
RECURSIVE CountFunc(_, _)
CountFunc(n, name) ==
  (IF n.Kind = "FUNC" /\ StrOf(n) = name THEN 1 ELSE 0)
  + SumSeq([k \in 1..Len(n.Children) |-> CountFunc(n.Children[k], name)])
  + (IF n.Chained = NoNode THEN 0 ELSE CountFunc(n.Chained, name))

\* the names of the FUNC nodes of the tree of n
RECURSIVE FuncNames(_)
FuncNames(n) ==
  (IF n.Kind = "FUNC" THEN {StrOf(n)} ELSE {})
  \cup UNION {FuncNames(n.Children[k]) : k \in 1..Len(n.Children)}
  \cup (IF n.Chained = NoNode THEN {} ELSE FuncNames(n.Chained))

\* C17: the FuncCalls of a compiled program counts, for each name, the FUNC
\* nodes of that name in the tree of its entry node; its keys are the names
\* of those nodes, and _delete is never one of them.
FuncCallsCountsNodes ==
  (cphase # "src" /\ progOf[1].ok) =>
    LET p == progOf[1]
    IN /\ DOMAIN p.FuncCalls = FuncNames(p.Entry)
       /\ \A name \in DOMAIN p.FuncCalls : p.FuncCalls[name] = CountFunc(p.Entry, name)
       /\ nameDelete \notin DOMAIN p.FuncCalls

\* the tokens one line emits, scanned on its own
LineToks(lines, k) == ScanRunes(lines[k], k, 0, NoVal, <<>>)

\* the tokens emitted by the lines before line k
RECURSIVE ToksBefore(_, _)
ToksBefore(lines, k) ==
  IF k <= 1 THEN <<>>
  ELSE ToksBefore(lines, k - 1) \o LineToks(lines, k - 1).toks

\* line k begins (every line before it was scanned to its end) while tokens
\* were emitted and the last of them is not END
BeginsUnended(lines, k) ==
  /\ \A j \in 1..(k - 1) : ~LineToks(lines, j).err
  /\ \A j \in 2..(k - 1) : LET b == ToksBefore(lines, j)
                           IN b = <<>> \/ b[Len(b)].Kind = "END"
  /\ LET b == ToksBefore(lines, k)
     IN b # <<>> /\ b[Len(b)].Kind # "END"

\* tokenize failed on the check made when a line begins
SemicolonError(p) == ~p.ok /\ p.phase = "tokenize" /\ p.err.msg = "semicolon"

\* C18: tokenize fails with the SourceError of a missing `;`, positioned at
\* the last token emitted, exactly when some line begins while tokens were
\* emitted and the last of them is not END; so when tokenize succeeds, every
\* line but the last that emitted tokens emitted END last.
UnendedLineFails ==
  cphase # "src" =>
    LET p == progOf[1]
        lines == SplitLines(src)
        open == {k \in 2..Len(lines) : BeginsUnended(lines, k)}
    IN /\ SemicolonError(p) <=> open # {}
       /\ \A k \in open :
            LET b == ToksBefore(lines, k)
            IN p.err.Line = b[Len(b)].Line /\ p.err.Column = b[Len(b)].Column
       /\ (p.ok \/ p.phase # "tokenize") =>
            \A k \in 1..(Len(lines) - 1) :
              LET t == LineToks(lines, k).toks
              IN t = <<>> \/ t[Len(t)].Kind = "END"

\* a second line began after a first that emitted two tokens and no END
C18Witness ==
  /\ cphase # "src"
  /\ SemicolonError(progOf[1])
  /\ progOf[1].err.Line = 1
  /\ progOf[1].err.Column = 2

(***************************************************************************)
(* NodeCompare on pairs of nodes.                                          *)
(***************************************************************************)
MaxKids == 2

\* a node built by hand, as a caller of NodeCompare can build one
Node(id, k, sub, v, kids, chained) ==
  [Id |-> id, Kind |-> k, SubType |-> sub, Value |-> v,
   Children |-> kids, Chained |-> chained]

\* the values of the nodes built by hand
NodeValues ==
  << NoValue, StrV(Runes("a")), StrV(<<>>), BoolV(TRUE),
     FltV(ParseFloat(Runes("1"), Runes("5"))) >>

\* the nodes used below a parent; NoNode is a nil pointer
KidNodes ==
  << NoNode,
     Node(1, "VALUE", <<>>, StrV(Runes("a")), <<>>, NoNode),
     Node(2, "VALUE", <<>>, StrV(Runes("a")), <<>>,
          Node(3, "FUNC", <<>>, BoolV(TRUE), <<>>, NoNode)) >>

\* sources whose entry nodes are compared
CompareSources ==
  << Runes("foo(bar(f0.9) baz);"), Runes("foo(bar(f0.8) baz);"),
     Runes("(a(x)|set(y)).ret();"), Runes("(a(x)|set(y)).a();") >>

\* what a node to compare is made of: nothing (a nil pointer), a node
\* without children, a parent of KidNodes, or the entry node of a compiled
\* source whose node ids start at id
NoShape == [form |-> "nil", id |-> 0, k |-> "NONE", sub |-> <<>>, v |-> 1,
            kids |-> <<>>, chained |-> 1, s |-> 1]
LeafShapes ==
  {[NoShape EXCEPT !.form = "leaf", !.id = id, !.k = k, !.sub = sub, !.v = v] :
     id \in {1, 2}, k \in {"FUNC", "VALUE"}, sub \in {<<>>, Runes("const")},
     v \in 1..Len(NodeValues)}
ParentShapes ==
  {[NoShape EXCEPT !.form = "parent", !.id = 4, !.k = "GROUP", !.kids = kids,
                   !.chained = chained] :
     kids \in SeqsUpTo(1..Len(KidNodes), MaxKids), chained \in 1..Len(KidNodes)}
CompiledShapes ==
  {[NoShape EXCEPT !.form = "compiled", !.id = id, !.s = s] :
     id \in {1, 50}, s \in 1..Len(CompareSources)}
Shapes == {NoShape} \cup LeafShapes \cup ParentShapes \cup CompiledShapes

NodeOf(d) ==
  CASE d.form = "nil" -> NoNode
    [] d.form = "compiled" -> CompileSource(CompareSources[d.s], d.id).Entry
    [] OTHER -> Node(d.id, d.k, d.sub, NodeValues[d.v],
                     [i \in 1..Len(d.kids) |-> KidNodes[d.kids[i]]],
                     KidNodes[d.chained])

InitCompare ==
  /\ \E a \in Shapes, b \in Shapes :
       cmp = [pc |-> "ready", lhs |-> NodeOf(a), rhs |-> NodeOf(b)]
  /\ src = <<>> /\ cphase = "src"
  /\ progOf = [c \in Callers |-> NoProg]
  /\ prog2 = NoProg
  /\ RegIdle /\ VMIdle

\* NodeCompare(lhs, rhs)
Compare ==
  /\ cmp.pc = "ready"
  /\ cmp' = [pc |-> "done", lhs |-> cmp.lhs, rhs |-> cmp.rhs,
             eq |-> NodeCompare(cmp.lhs, cmp.rhs)]
  /\ UNCHANGED <<src, cphase, progOf, prog2, regVars, vmVars>>

NextCompare == Compare

SpecCompare == InitCompare /\ [][NextCompare]_vars

\* two values are both absent, or of the same variant with the same payload
EqualValue(v, w) ==
  \/ v = NoValue /\ w = NoValue
  \/ v # NoValue /\ w # NoValue /\ v.Kind = w.Kind /\ v.v = w.v

\* structural equality of two nodes, clause by clause
RECURSIVE Structural(_, _)
Structural(a, b) ==
  /\ a # NoNode /\ b # NoNode
  /\ a.Kind = b.Kind
  /\ a.SubType = b.SubType
  /\ EqualValue(a.Value, b.Value)
  /\ \/ a.Chained = NoNode /\ b.Chained = NoNode
     \/ Structural(a.Chained, b.Chained)
  /\ Len(a.Children) = Len(b.Children)
  /\ \A i \in 1..Len(a.Children) : Structural(a.Children[i], b.Children[i])

\* the node with every id of its tree replaced by id
RECURSIVE Renumber(_, _)
Renumber(n, id) ==
  IF n = NoNode THEN NoNode
  ELSE [n EXCEPT !.Id = id,
                 !.Chained = Renumber(@, id),
                 !.Children = [i \in 1..Len(@) |-> Renumber(@[i], id)]]

\* C19: NodeCompare(a, b) is true exactly when both nodes are non-null and
\* agree in Kind, sub-type, value (variant and payload, or both absent),
\* chain (both absent, or equal in the same sense) and children (as many,
\* pairwise equal in the same sense, in order); the ids of the nodes do not
\* change the result, and two null nodes compare as not equal.
NodeCompareIsStructural ==
  cmp.pc = "done" =>
    /\ cmp.eq <=> Structural(cmp.lhs, cmp.rhs)
    /\ cmp.eq <=> NodeCompare(Renumber(cmp.lhs, 0), Renumber(cmp.rhs, 0))
    /\ (cmp.lhs = NoNode /\ cmp.rhs = NoNode) => ~cmp.eq

\* two trees found equal whose nodes have different ids: a statement that
\* is a group of two children with a chain
C19Witness ==
  /\ cmp.pc = "done" /\ cmp.eq
  /\ cmp.lhs.Id # cmp.rhs.Id
  /\ Len(cmp.lhs.Children) = 1
  /\ cmp.lhs.Children[1].Id # cmp.rhs.Children[1].Id
  /\ cmp.lhs.Children[1].Chained # NoNode
  /\ Len(cmp.lhs.Children[1].Children) = 2

\* C20: the program LoadIR makes of the IR of a compiled program has the
\* source and the FuncCalls of that program, and an entry node NodeCompare
\* reports equal to its entry node.
IRRoundTrip ==
  cphase = "loaded" =>
    /\ prog2.Source = progOf[1].Source
    /\ DOMAIN prog2.FuncCalls = DOMAIN progOf[1].FuncCalls
    /\ \A k \in DOMAIN prog2.FuncCalls : prog2.FuncCalls[k] = progOf[1].FuncCalls[k]
    /\ NodeCompare(prog2.Entry, progOf[1].Entry)

\* a loaded program of two function names whose tree holds a FLT value
\* below a call below a call
C20Witness ==
  /\ cphase = "loaded"
  /\ Cardinality(DOMAIN prog2.FuncCalls) = 2
  /\ prog2.Entry.Children # <<>>
  /\ prog2.Entry.Children[1].Children # <<>>
  /\ prog2.Entry.Children[1].Children[1].Children # <<>>
  /\ prog2.Entry.Children[1].Children[1].Children[1].Value.Kind = "FLT"

\* what the child k of a group is to be handed as the last return: the
\* return of child k - 1, the zero Value when there is none
PreviousReturn(log, g, k) ==
  IF k = 1 THEN ZeroValue ELSE VisibleReturn(log, g.Children[k - 1])

\* C21: in a group whose call succeeded, the handler of the child k that is
\* a FUNC saw as last return the return of child k - 1, and the zero
\* Value when k = 1 or child k - 1 returned nothing.
GroupThreadsLastReturn ==
  GroupDone =>
    \A k \in 1..Len(deep.node.Children) :
      LET c == deep.node.Children[k]
      IN (c.Kind = "FUNC" /\ Invoked(st.log, c.Id)) =>
           SameValue(st.log[InvokeOf(st.log, c.Id)].last,
                     PreviousReturn(st.log, deep.node, k))

\* where in the token list the token of that line and column is
RawIndex(toks, o) ==
  CHOOSE i \in 1..Len(toks) : toks[i].Line = o.Line /\ toks[i].Column = o.Column

\* C22: in a compiled program, the node made for a `(` is a GROUP when the
\* token just before it in the token list is not a VALUE (or there is none),
\* and a FUNC or NAT named v when that token is the VALUE v.
OpenFollowsRawToken ==
  (cphase # "src" /\ progOf[1].ok) =>
    \A k \in 1..Len(progOf[1].opens) :
      LET toks == progOf[1].Tokens
          o == progOf[1].opens[k]
          i == RawIndex(toks, o)
      IN /\ toks[i].Kind = "OPEN"
         /\ IF i > 1 /\ toks[i - 1].Kind = "VALUE"
            THEN /\ o.Kind = (IF toks[i - 1].Value \in nativeFunctionNames
                              THEN "NAT" ELSE "FUNC")
                 /\ o.name = toks[i - 1].Value
            ELSE o.Kind = "GROUP"

\* the program cut after its statement j, and the walk of it from a fresh
\* state
Prefix(entry, j) == [entry EXCEPT !.Children = SubSeq(@, 1, j)]
PrefixWalk(entry, j) ==
  call(Prefix(entry, j), NoRetCtx, NewState(env, MachineFuncs), env)

\* the first statement whose walk fails, 0 when none does
FirstFailing(entry) ==
  LET bad == {j \in 1..Len(entry.Children) : IsErr(PrefixWalk(entry, j))}
  IN IF bad = {} THEN 0 ELSE CHOOSE j \in bad : \A i \in bad : j <= i

\* the ids of the nodes of a tree
RECURSIVE NodeIds(_)
NodeIds(n) ==
  {n.Id}
  \cup UNION {NodeIds(n.Children[k]) : k \in 1..Len(n.Children)}
  \cup (IF n.Chained = NoNode THEN {} ELSE NodeIds(n.Chained))

\* an Execute that walked its program has returned
WalkReturned == pc[1] = "returned" /\ count > 0 /\ progOf[1].Entry.Kind = "ROOT"

\* C23: when a statement of the entry node fails, Execute returns the error
\* of the first statement that fails, every handler invoked belongs to that
\* statement or an earlier one, and the names and the heap are as the
\* statements up to it left them.
RootStopsAtFirstError ==
  (WalkReturned /\ FirstFailing(progOf[1].Entry) > 0) =>
    LET entry == progOf[1].Entry
        k == FirstFailing(entry)
        ref == PrefixWalk(entry, k)
    IN /\ result[1] = ref.err
       /\ \A i \in 1..Len(st.log) :
            st.log[i].ev = "invoke" =>
              \E j \in 1..k : st.log[i].node \in NodeIds(entry.Children[j])
       /\ Len(st.log) = Len(ref.m.log)
       /\ st.names = ref.m.names
       /\ DOMAIN st.heap = DOMAIN ref.m.heap

\* the second of three statements failed after the first bound a name
C23Witness ==
  /\ WalkReturned
  /\ Len(progOf[1].Entry.Children) = 3
  /\ FirstFailing(progOf[1].Entry) = 2
  /\ DOMAIN st.names # {}
  /\ Len(st.log) > 0

\* a call of a FUNC node with a registered handler, whose own frame fitted
\* on the stack, has returned
FuncDone ==
  /\ deep.pc = "done"
  /\ deep.node.Kind = "FUNC"
  /\ StrOf(deep.node) \in DOMAIN st.lookup
  /\ deep.base < maxStackLevel
  /\ ~IsPanic([err |-> deep.err])

\* the argument k of the node evaluated on its own, from the depth the
\* node's arguments are evaluated at
ArgAlone(k) ==
  call(deep.node.Children[k], deep.ctx, DeepState(deep.base + 1, MachineFuncs), <<>>)

\* the nodes entered while argument k was evaluated on its own
ArgEntered(k) == ArgAlone(k).m.ptr - (ptrStart + deep.base + 1)

\* the first argument that fails or leaves no return, 0 when there is none
FirstUnfit ==
  LET bad == {k \in 1..Len(deep.node.Children) :
                IsErr(ArgAlone(k)) \/ ~HasReturn(ArgAlone(k).frame)}
  IN IF bad = {} THEN 0 ELSE CHOOSE k \in bad : \A j \in bad : k <= j

\* where the node of that id sits: in argument k, the node itself
\* (after the arguments), or its chain (after that)
Slot(id) ==
  LET n == deep.node
      in == {k \in 1..Len(n.Children) : id \in NodeIds(n.Children[k])}
  IN IF in # {} THEN CHOOSE k \in in : TRUE
     ELSE IF id = n.Id THEN Len(n.Children) + 1
     ELSE Len(n.Children) + 2

\* C24: the handlers of a FUNC node's arguments are invoked argument by
\* argument from the left, and before the node's own handler; when an
\* argument fails or leaves no return, the call fails with that error (or
\* MissingReturnValue), the node's handler is not invoked and nothing of
\* the arguments to its right is evaluated.
ArgsLeftToRight ==
  FuncDone =>
    LET n == deep.node
        k == FirstUnfit
    IN /\ \A i, j \in 1..Len(st.log) :
            i < j => Slot(st.log[i].node) <= Slot(st.log[j].node)
       /\ k > 0 =>
            /\ deep.err = (IF IsErr(ArgAlone(k)) THEN ArgAlone(k).err
                           ELSE RuntimeError("MissingReturnValue"))
            /\ ~Invoked(st.log, n.Id)
            /\ \A i \in 1..Len(st.log) : Slot(st.log[i].node) <= k
            /\ st.ptr = ptrStart + deep.base + 1
                          + SumSeq([j \in 1..k |-> ArgEntered(j)])
       /\ k = 0 =>
            st.ptr >= ptrStart + deep.base + 1
                        + SumSeq([j \in 1..Len(n.Children) |-> ArgEntered(j)])

\* the first of two arguments invoked its handler and failed or returned
\* nothing
C24Witness ==
  /\ FuncDone
  /\ Len(deep.node.Children) = 2
  /\ FirstUnfit = 1
  /\ Len(st.log) = 1
  /\ deep.node.Children[2].Kind = "FUNC"

\* a call of a FUNC node that has a chain and a handler whose signature
\* returns no value has returned
ChainNoReturnDone ==
  /\ FuncDone
  /\ deep.node.Chained # NoNode
  /\ st.lookup[StrOf(deep.node)].retC = 0

\* the log entries of the node's own handler
OwnInvokes ==
  {i \in 1..Len(st.log) : st.log[i].ev = "invoke" /\ st.log[i].node = deep.node.Id}

\* nothing of the chain was evaluated: no handler of it was invoked, and
\* the execution pointer advanced by no more than the node and its
\* arguments
ChainNotEvaluated ==
  /\ \A i \in 1..Len(st.log) : st.log[i].node \notin NodeIds(deep.node.Chained)
  /\ st.ptr <= ptrStart + deep.base + 1
                 + SumSeq([j \in 1..Len(deep.node.Children) |-> ArgEntered(j)])

\* C25 as stated: such a call fails with ChainingToFunc, after the node's
\* handler was invoked once, and the chain is never evaluated.
ChainingAlwaysFails ==
  ChainNoReturnDone =>
    /\ deep.err = RuntimeError("ChainingToFunc")
    /\ Cardinality(OwnInvokes) = 1
    /\ ChainNotEvaluated

\* C25: such a call always fails and its chain is never evaluated; it fails
\* with ChainingToFunc exactly when the node's handler was invoked (once)
\* and returned no error, and with the handler's error when the handler
\* returned one; when no handler was invoked the error is that of an
\* argument or of the call itself (ArgumentError).
ChainingFailsAfterHandler ==
  ChainNoReturnDone =>
    /\ deep.err # NoErr
    /\ ChainNotEvaluated
    /\ Cardinality(OwnInvokes) <= 1
    /\ deep.err = RuntimeError("ChainingToFunc")
         <=> \E i \in OwnInvokes : st.log[i].err = NoErr
    /\ \A i \in OwnInvokes : st.log[i].err # NoErr => deep.err = st.log[i].err

\* foo().a(x): foo was invoked, then the call failed with ChainingToFunc
C25Witness ==
  /\ ChainNoReturnDone
  /\ deep.err = RuntimeError("ChainingToFunc")
  /\ Cardinality(OwnInvokes) = 1
  /\ Len(st.log) = 1

\* a call of a FUNC node with a registered handler has ended, and each of
\* its arguments, evaluated on its own, succeeds and leaves a return: the
\* handler was called with as many arguments as the node has children
HandlerCalled ==
  /\ deep.pc = "done"
  /\ deep.node.Kind = "FUNC"
  /\ StrOf(deep.node) \in DOMAIN st.lookup
  /\ deep.base < maxStackLevel
  /\ \A k \in 1..Len(deep.node.Children) :
       ~IsErr(ArgAlone(k)) /\ HasReturn(ArgAlone(k).frame)

\* whether the handler's first parameter is a context
DeclaresContext(fn) == Len(fn.in) > 0 /\ fn.in[1] = "ctx"

\* the declared arity: the parameters without a leading context
DeclaredArity(fn) == IF DeclaresContext(fn) THEN Len(fn.in) - 1 ELSE Len(fn.in)

\* the handler was invoked once, with the node's arguments, and with the
\* context first exactly when it declares one
InvokedOnce(fn) ==
  /\ Cardinality(OwnInvokes) = 1
  /\ \A i \in OwnInvokes :
       /\ st.log[i].withCtx = DeclaresContext(fn)
       /\ Len(st.log[i].args) = Len(deep.node.Children)
       /\ \A k \in 1..Len(deep.node.Children) :
            SameValue(st.log[i].args[k], ArgAlone(k).frame[stackReturnPtr])

\* the call failed with ArgumentError and the handler was not invoked
ArityRejected ==
  deep.err = RuntimeError("ArgumentError") /\ OwnInvokes = {}

ArgsAssignable ==
  LET fn == st.lookup[StrOf(deep.node)]
      off == IF DeclaresContext(fn) THEN 1 ELSE 0
  IN \A k \in 1..Len(deep.node.Children) :
       Assignable(fn.in[k + off], ArgAlone(k).frame[stackReturnPtr])

C26Rejected ==
  /\ HandlerCalled
  /\ DeclaresContext(st.lookup[StrOf(deep.node)])
  /\ Len(deep.node.Children) = 1
  /\ ArityRejected

\* the last successful ASSIGN to name among the first n entries of the log,
\* 0 when there is none
LastAssign(log, name, n) ==
  LET A == {j \in 1..n : log[j].ev = "assign" /\ log[j].ok /\ log[j].name = name}
  IN IF A = {} THEN 0 ELSE CHOOSE j \in A : \A i \in A : i <= j

\* whether a _delete of name is among the entries j+1..n of the log
DeletedSince(log, name, j, n) ==
  \E d \in (j + 1)..n : log[d].ev = "delete" /\ log[d].name = name

\* the entry that binds name after the first n entries of the log: its last
\* successful ASSIGN when no _delete followed it, 0 otherwise
BoundBy(log, name, n) ==
  LET j == LastAssign(log, name, n)
  IN IF j # 0 /\ ~DeletedSince(log, name, j, n) THEN j ELSE 0

\* the VAR nodes of a tree
RECURSIVE VarsOf(_)
RECURSIVE VarsOfKids(_, _)
VarsOf(n) ==
  (IF n.Kind = "VAR" THEN <<n>> ELSE <<>>)
  \o VarsOfKids(n.Children, 1)
  \o (IF n.Chained = NoNode THEN <<>> ELSE VarsOf(n.Chained))
VarsOfKids(kids, k) ==
  IF k > Len(kids) THEN <<>> ELSE VarsOf(kids[k]) \o VarsOfKids(kids, k + 1)

\* the worker is between two statements of the program it walks
BetweenStatements == Alive /\ worker.pc = "walk"

\* what the evaluation of the VAR node v gives in the machine's state
VarRead(v) == call(v, NoRetCtx, st, env)

\* C27: every VAR evaluated so far in the execution returned the value of
\* the last successful ASSIGN to its name, which no _delete of the name
\* followed; and between two statements, a VAR node of the program
\* evaluates to the value of the last successful ASSIGN to its name when no
\* _delete of the name followed it, and fails with VarErr when the name was
\* never assigned or was deleted since.
VarReadsLastAssign ==
  /\ \A i \in 1..Len(st.log) :
       st.log[i].ev = "var" =>
         LET j == BoundBy(st.log, st.log[i].name, i - 1)
         IN j # 0 /\ SameValue(st.log[i].val, st.log[j].val)
  /\ BetweenStatements =>
       LET vs == VarsOf(progOf[worker.cur].Entry)
       IN \A k \in 1..Len(vs) :
            LET j == BoundBy(st.log, StrOf(vs[k]), Len(st.log))
            IN IF j = 0 THEN VarRead(vs[k]).err = RuntimeError("VarErr")
               ELSE /\ VarRead(vs[k]).err = NoErr
                    /\ SameValue(VarRead(vs[k]).frame[stackReturnPtr], st.log[j].val)

\* a VAR was read after its name was assigned, deleted and assigned again
\* with another value
C27Witness ==
  \E i \in 1..Len(st.log) :
    /\ st.log[i].ev = "var"
    /\ \E j \in 1..(i - 1) : \E d \in (j + 1)..(i - 1) :
         /\ st.log[j].ev = "assign" /\ st.log[j].ok
         /\ st.log[j].name = st.log[i].name
         /\ ~SameValue(st.log[j].val, st.log[i].val)
         /\ st.log[d].ev = "delete" /\ st.log[d].name = st.log[i].name

\* a statement that reads a name deleted since its ASSIGN failed with VarErr
C27Deleted ==
  /\ worker.pc = "finish"
  /\ worker.out = RuntimeError("VarErr")
  /\ \E j \in 1..Len(st.log) :
       /\ st.log[j].ev = "assign" /\ st.log[j].ok
       /\ DeletedSince(st.log, st.log[j].name, j, Len(st.log))

\* the statement the worker is about to evaluate
NextStatement == progOf[worker.cur].Entry.Children[worker.k]

\* the worker is about to evaluate a _delete with one argument
DeleteNext ==
  /\ BetweenStatements
  /\ NextStatement.Kind = "NAT"
  /\ StrOf(NextStatement) = nameDelete
  /\ Len(NextStatement.Children) = 1

\* what the evaluation of the argument of that _delete gives
DeleteArg ==
  call(NextStatement.Children[1], NoRetCtx, Enter(NextStatement, st).m, env)

\* the argument of that _delete evaluates to a STR
DeletesName == HasReturn(DeleteArg.frame) /\ DeleteArg.frame[stackReturnPtr].Kind = "STR"

\* two heaps hold the same values under the same pointers
SameHeap(h1, h2) ==
  DOMAIN h1 = DOMAIN h2 /\ \A p \in DOMAIN h1 : SameValue(h1[p], h2[p])

\* the step of the worker that evaluates a _delete whose argument evaluates
\* without error
DeleteStep == DeleteNext /\ ~IsErr(DeleteArg) /\ worker' # worker

\* C28: a _delete whose argument evaluated reports no error and leaves the
\* heap as it was; when the argument is a STR it removes that name from the
\* names table and leaves every other name bound to the pointer it had, and
\* when the argument is not a STR, or left no return, the names table is as
\* it was (as it is when the name was not bound).
DeleteRemovesOnlyName ==
  [][DeleteStep =>
       /\ worker'.pc # "crashed"
       /\ worker'.pc = "finish" => worker'.out = NoErr
       /\ SameHeap(st.heap, st'.heap)
       /\ IF DeletesName
          THEN /\ DOMAIN st'.names = DOMAIN st.names \ {DeleteArg.frame[stackReturnPtr].v}
               /\ \A x \in DOMAIN st'.names : st'.names[x] = st.names[x]
          ELSE st'.names = st.names]_vars

\* a _delete removed a bound name while another name was bound and the heap
\* held a value for each
C28Witness ==
  /\ Len(st.log) > 0
  /\ st.log[Len(st.log)].ev = "delete"
  /\ st.log[Len(st.log)].was
  /\ DOMAIN st.names # {}
  /\ Cardinality(DOMAIN st.heap) = 2

\* a _delete of a name that is not bound is next while a name is bound
C28Unbound ==
  /\ DeleteNext /\ ~IsErr(DeleteArg) /\ DeletesName
  /\ DeleteArg.frame[stackReturnPtr].v \notin DOMAIN st.names
  /\ DOMAIN st.names # {}

\* a _delete whose argument is not a STR is next while a name is bound
C28NotStr ==
  /\ DeleteNext /\ ~IsErr(DeleteArg) /\ ~DeletesName
  /\ DOMAIN st.names # {}

\* a node has a value, no children and no chain
IsLeaf(n) == n.Value.Kind # "NIL" /\ n.Children = <<>> /\ n.Chained = NoNode

\* what a node below the entry node must look like
ShapeOk(n) ==
  /\ n.Kind # "ROOT"
  /\ n.Kind \in {"VALUE", "VAR"} => IsLeaf(n)
  /\ n.Kind = "ASSIGN" =>
       /\ n.SubType = kwConst
       /\ n.Value.Kind = "STR"
       /\ n.Children = <<>>
       /\ n.Chained # NoNode

\* every node of the tree of n has the shape of its kind
RECURSIVE AllShaped(_)
AllShaped(n) ==
  /\ ShapeOk(n)
  /\ \A k \in 1..Len(n.Children) : AllShaped(n.Children[k])
  /\ n.Chained # NoNode => AllShaped(n.Chained)

\* the entry node is a ROOT and everything below it has its shape
WellShaped(p) ==
  /\ p.Entry.Kind = "ROOT"
  /\ \A k \in 1..Len(p.Entry.Children) : AllShaped(p.Entry.Children[k])
  /\ p.Entry.Chained # NoNode => AllShaped(p.Entry.Chained)

\* C29: in every program CompileSource returns, each VALUE and each VAR
\* node has a value, no children and no chain, each ASSIGN node has the
\* sub-type const, a STR name, no children and a chain, and the entry node
\* is the only ROOT node.
CompiledTreeShape ==
  /\ (cphase # "src" /\ progOf[1].ok) => WellShaped(progOf[1])
  /\ (cphase = "recompiled" /\ prog2.ok) => WellShaped(prog2)

\* a compiled program with an ASSIGN whose right-hand side is a call that
\* reads a variable, after an ASSIGN whose right-hand side has a value
C29Witness ==
  /\ cphase = "compiled" /\ progOf[1].ok
  /\ \E i, j \in 1..Len(progOf[1].Entry.Children) :
       LET a == progOf[1].Entry.Children[i]
           b == progOf[1].Entry.Children[j]
       IN /\ i < j
          /\ a.Kind = "ASSIGN" /\ b.Kind = "ASSIGN"
          /\ Len(a.Chained.Children) = 1 /\ a.Chained.Children[1].Kind = "VALUE"
          /\ Len(b.Chained.Children) = 1 /\ b.Chained.Children[1].Kind = "VAR"

\* the worker has set up the state of an execution and entered the entry
\* node, and has evaluated no statement yet
JustBegun ==
  /\ Alive /\ worker.pc = "walk" /\ worker.k = 1
  /\ st.ptr = ptrStart + 1

\* what c's program returns when it is executed on a machine that has
\* executed nothing, with the environment c's execution began with
Alone(c) ==
  call(progOf[c].Entry, NoRetCtx, NewState(envAtBegin[c], MachineFuncs),
       envAtBegin[c]).err

\* the Execute of c was walked by the worker and has returned
Executed(c) == pc[c] = "returned" /\ c \in Range(submitted)

\* C30: an execution begins with an empty heap and names table and a stack
\* that holds the frame of the entry node only, and each Execute returns
\* what its program returns on a machine that has executed nothing: a
\* program that binds a constant returns nil every time, and a program that
\* reads a constant an earlier program bound fails with VarErr.
ExecutionsShareNothing ==
  /\ JustBegun =>
       /\ st.heap = <<>> /\ st.names = <<>>
       /\ Len(st.stack) = 1
       /\ DOMAIN st.stack[1] = {stackNodeIDPtr, stackNodeDescPtr}
  /\ \A c \in Callers : Executed(c) => result[c] = Alone(c)

\* the position in the events of the delivery to caller c
DeliveredAt(c) ==
  CHOOSE i \in 1..Len(events) : events[i].ev = "deliver" /\ events[i].c = c

\* the same constant-binding program was executed twice and returned nil
\* both times
C30Witness ==
  /\ \A c \in Callers : Executed(c) /\ result[c] = NoErr
  /\ \A c \in Callers : Len(progOf[c].Entry.Children) = 1
                          /\ progOf[c].Entry.Children[1].Kind = "ASSIGN"
  /\ count = NumCallers

\* a program that reads the constant returned VarErr after the program that
\* binds it had returned nil
C30NotVisible ==
  \E c, d \in Callers :
    /\ Executed(c) /\ Executed(d)
    /\ DeliveredAt(c) < DeliveredAt(d)
    /\ progOf[c].Entry.Children[1].Kind = "ASSIGN" /\ result[c] = NoErr
    /\ result[d] = RuntimeError("VarErr")

\* the worker is about to evaluate an ASSIGN with the sub-type const and a
\* right-hand side, whose name is bound
RebindNext ==
  /\ BetweenStatements
  /\ NextStatement.Kind = "ASSIGN"
  /\ NextStatement.SubType = kwConst
  /\ NextStatement.Chained # NoNode
  /\ StrOf(NextStatement) \in DOMAIN st.names

\* the entries the step added to the log
Added(log1, log2) == SubSeq(log2, Len(log1) + 1, Len(log2))

\* C31: the step that evaluates an ASSIGN whose name is bound ends the walk
\* with AssignmentError, invokes no handler, enters no node but the ASSIGN
\* itself, and leaves the names table and the heap as they were.
BoundAssignSkipsRHS ==
  [][(RebindNext /\ worker' # worker) =>
       /\ worker'.pc = "finish"
       /\ worker'.out = RuntimeError("AssignmentError")
       /\ \A i \in 1..Len(Added(st.log, st'.log)) :
            Added(st.log, st'.log)[i].ev = "assign"
       /\ st'.ptr = st.ptr + 1
       /\ st'.names = st.names
       /\ SameHeap(st.heap, st'.heap)]_vars

\* the walk of const a = set(x); const a = set(x); has ended: set was invoked
\* once, for the first statement, and the second failed as a reassignment
C31Witness ==
  /\ worker.pc = "finish"
  /\ worker.out = RuntimeError("AssignmentError")
  /\ Len(st.log) = 3
  /\ st.log[1].ev = "invoke" /\ st.log[1].name = nameSet
  /\ st.log[2].ev = "assign" /\ st.log[2].ok
  /\ st.log[3].ev = "assign" /\ st.log[3].why = "bound"
  /\ st.log[3].name = st.log[2].name
  /\ progOf[worker.cur].Entry.Children[2].Chained.Kind = "FUNC"
  /\ StrOf(progOf[worker.cur].Entry.Children[2].Chained) = nameSet

\* the successful ASSIGNs of the log
Assigned(log) == {i \in 1..Len(log) : log[i].ev = "assign" /\ log[i].ok}

\* each name points to a pointer of the heap, no two names to the same
\* one, and the successful ASSIGNs of the execution stored under pointers
\* that grow from one to the next and have not passed the pointer counter
NamesWellFormed ==
  /\ \A n \in DOMAIN st.names : st.names[n] \in DOMAIN st.heap
  /\ \A n1, n2 \in DOMAIN st.names : st.names[n1] = st.names[n2] => n1 = n2
  /\ \A i, j \in Assigned(st.log) : i < j => st.log[i].ptr < st.log[j].ptr
  /\ \A i \in Assigned(st.log) :
       st.log[i].ptr \in DOMAIN st.heap /\ st.log[i].ptr <= st.ptr

\* a step of the worker inside one execution
SameExecution == worker.pc = "walk" /\ worker' # worker

\* C32: in every state of the evaluator each name points to a pointer that
\* has a heap entry, two names never point to the same pointer and every
\* successful ASSIGN of the execution stored under a pointer no earlier one
\* used; and no step of an execution decreases the pointer counter.
PointersNeverShared ==
  /\ []NamesWellFormed
  /\ [][SameExecution => st'.ptr >= st.ptr]_vars

\* two names are bound, to two pointers of the heap
C32Witness ==
  /\ Cardinality(DOMAIN st.names) = 2
  /\ Cardinality({st.names[n] : n \in DOMAIN st.names}) = 2
  /\ Cardinality(Assigned(st.log)) = 2

\* a name was bound again after its _delete: the heap holds both values,
\* under two pointers
C32Rebound ==
  /\ Cardinality(DOMAIN st.names) = 1
  /\ Cardinality(DOMAIN st.heap) = 2
  /\ \E i, j \in Assigned(st.log) : i < j /\ st.log[i].name = st.log[j].name

\* the position in the events of the beginning of caller c's walk
BegunAt(c) ==
  CHOOSE i \in 1..Len(events) : events[i].ev = "begin" /\ events[i].c = c

\* an Execute that passed its check of the names has returned only after the
\* worker took its program and began to walk it
ReturnsAfterAccept ==
  \A c \in Callers :
    Executed(c) =>
      /\ \E i \in 1..Len(events) : events[i].ev = "begin" /\ events[i].c = c
      /\ \E i \in 1..Len(events) : events[i].ev = "deliver" /\ events[i].c = c
      /\ BegunAt(c) < DeliveredAt(c)

\* caller c is inside Execute: it sends on Machine.exec or waits on done
InExecute(c) == pc[c] \in {"send", "wait"}

ShutdownStopsWorker ==
  down.pc = "returned" =>
    /\ worker.pc = "exited"
    /\ Len(events) = down.evRet
    /\ down.walking # 0 =>
         \E i \in 1..down.evRet : events[i] = [ev |-> "end", c |-> down.walking]

\* Shutdown has returned; it was called during a walk, and a caller that
\* sent its program after the call is left waiting
C11Witness ==
  /\ down.pc = "returned"
  /\ down.walking # 0
  /\ \E c \in Callers : pc[c] = "send"

=============================================================================
